---- MODULE Spec2Model ----
(***************************************************************************)
(* P&L Flex Card Generator API: the gain calculator, the percentage and    *)
(* token-price formatters, the request validator, the sanitizers, the      *)
(* card renderer, and the POST /generate-card handler run by a server      *)
(* that processes NumRequests requests concurrently.                       *)
(*                                                                         *)
(* Numbers.  A JavaScript number is modelled as an exact decimal rational  *)
(* [n, d, x] standing for (n / d) * 10^x, with n an integer, d a positive  *)
(* integer and x a decimal exponent.  Prices are decimal literals          *)
(* (d = 1).  The inputs of calculatePnL are drawn so that the double       *)
(* subtraction is either exact in the model (exponents at most MaxGap      *)
(* apart) or absorbs the smaller operand (exponents at least AbsorbGap     *)
(* apart, where the smaller operand is below half an ulp of the larger).   *)
(* Binary rounding error of individual double operations is not modelled.  *)
(*                                                                         *)
(* Strings are sequences of one-character strings.                         *)
(***************************************************************************)
EXTENDS Integers, Sequences, FiniteSets, TLC

VARIABLES
    locale,     \* the process's default locale, read by toLocaleString
    pnlIn,      \* <<entryPrice, currentPrice>>, the arguments of calculatePnL
    pnl,        \* the value calculatePnL returned
    priceIn,    \* the argument of formatTokenPrice
    priceText,  \* the string formatTokenPrice returned
    request,    \* the CardRequest given to validate
    errors,     \* the list validate returned
    sanIn,      \* [input, maxLength], the arguments of the sanitizers
    sanOut,     \* [ticker, text], what sanitizeTicker and sanitizeString returned
    cardIn,     \* [data, theme], the arguments of renderCard
    drawn,      \* the drawing operations renderCard issued
    reqs,       \* the HTTP requests in flight: position, body, response, calls made
    metrics,    \* the counters of utils/metrics.ts
    now,        \* the clock read by Date.now() and new Date(), in minutes
    env,        \* process.env.NODE_ENV: whether it is set, and its value
    http,       \* [request, response], a request given to the Express app
    pc          \* "call" before the function under study has run, "return" after

pnlVars == <<pnlIn, pnl>>
priceVars == <<priceIn, priceText>>
validateVars == <<request, errors>>
sanitizeVars == <<sanIn, sanOut>>
renderVars == <<cardIn, drawn>>
serverVars == <<reqs, metrics, now>>
appVars == <<env, http>>

vars == <<locale, pnlVars, priceVars, validateVars, sanitizeVars, renderVars, serverVars,
          appVars, pc>>

\* the variables of a function that is not under study
IdlePnL == pnlIn = <<>> /\ pnl = <<>>
IdlePrice == priceIn = <<>> /\ priceText = <<>>
IdleValidate == request = <<>> /\ errors = <<>>
IdleSanitize == sanIn = <<>> /\ sanOut = <<>>
IdleRender == cardIn = <<>> /\ drawn = <<>>
IdleServer == reqs = <<>> /\ metrics = <<>> /\ now = 0
IdleApp == env = <<>> /\ http = <<>>

----------------------------------------------------------------------------
(* Bounds of the model *)

\* calculatePnL inputs whose exponents differ by at most MaxGap are subtracted exactly
MaxGap == 4
\* exponent distance from which the double subtraction returns the larger operand
AbsorbGap == 20
\* largest exponent distance between the two prices of one calculatePnL call
FarGap == 35
\* formatTokenPrice is given prices m * 10^x with -PriceExpDown <= x <= PriceExpUp
PriceExpDown == 26
PriceExpUp == 15
\* how far the longest request strings exceed their length ceilings
MaxExcess == 1
\* requests in flight at the same time
NumRequests == 2
\* the clock runs from minute 0 to minute MaxClock
MaxClock == 1

----------------------------------------------------------------------------
(* Numbers *)

Num(n, d, x) == [n |-> n, d |-> d, x |-> x]

Dec(m, x) == Num(m, 1, x)

Abs(a) == IF a < 0 THEN -a ELSE a

IsNeg(v) == v.n < 0

SignOf(v) == IF v.n < 0 THEN -1 ELSE 1

AbsNum(v) == [v EXCEPT !.n = Abs(v.n)]

\* v / 10^k
DivPow10(v, k) == [v EXCEPT !.x = v.x - k]

RECURSIVE ScaledGE(_, _, _)
\* a * 10^e >= b, for a >= 0 and b > 0, without forming the product
ScaledGE(a, b, e) ==
    IF a = 0 THEN FALSE
    ELSE IF e >= 0
         THEN IF a >= b THEN TRUE
              ELSE IF e = 0 THEN FALSE
              ELSE ScaledGE(a * 10, b, e - 1)
         ELSE IF a < b THEN FALSE
              ELSE ScaledGE(a, b * 10, e + 1)

\* |v| >= 10^k
GE10(v, k) == ScaledGE(Abs(v.n), v.d, v.x - k)

\* |v| <= 10^k
LE10(v, k) == v.n = 0 \/ ScaledGE(v.d, Abs(v.n), k - v.x)

RECURSIVE FloorScaled(_, _, _)
\* quotient and remainder of a * 10^s by b (long division), a >= 0, b > 0, s >= 0
FloorScaled(a, b, s) ==
    IF s = 0 THEN [q |-> a \div b, r |-> a % b]
    ELSE LET p == FloorScaled(a, b, s - 1)
         IN  [q |-> p.q * 10 + ((p.r * 10) \div b), r |-> (p.r * 10) % b]

\* quotient, remainder and divisor of |v| * 10^k
QuoRem(v, k) ==
    LET s == k + v.x
        b == IF s >= 0 THEN v.d ELSE v.d * (10 ^ (-s))
        p == FloorScaled(Abs(v.n), b, IF s >= 0 THEN s ELSE 0)
    IN  [q |-> p.q, r |-> p.r, b |-> b]

\* |v| * 10^k rounded to the nearest integer, ties away from zero
RoundHalfUpAbs(v, k) ==
    IF k + v.x < -9 THEN 0
    ELSE LET p == QuoRem(v, k) IN p.q + (IF 2 * p.r >= p.b THEN 1 ELSE 0)

\* |v| * 10^k rounded to the nearest integer, ties toward zero
RoundHalfDownAbs(v, k) ==
    IF k + v.x < -9 THEN 0
    ELSE LET p == QuoRem(v, k) IN p.q + (IF 2 * p.r > p.b THEN 1 ELSE 0)

\* Math.round(v * 10^k): nearest integer, ties toward +Infinity
MathRoundScaled(v, k) ==
    IF v.n >= 0 THEN RoundHalfUpAbs(v, k) ELSE -RoundHalfDownAbs(v, k)

\* v is an integer written without a fraction
IsWhole(v) == v.d = 1 /\ v.x >= 0

----------------------------------------------------------------------------
(* Digit strings *)

DigitChars == <<"0", "1", "2", "3", "4", "5", "6", "7", "8", "9">>

RECURSIVE Digits(_)
\* the decimal digits of a natural number
Digits(k) ==
    IF k < 10 THEN <<DigitChars[k + 1]>>
    ELSE Digits(k \div 10) \o <<DigitChars[(k % 10) + 1]>>

Zeros(k) == [i \in 1..k |-> "0"]

RECURSIVE StripTrailingZeros(_)
StripTrailingZeros(s) ==
    IF Len(s) > 1 /\ s[Len(s)] = "0" THEN StripTrailingZeros(SubSeq(s, 1, Len(s) - 1))
    ELSE s

\* the digits beyond the f-th cut off instead of rounded
RoundedDigitsDown(v, f) ==
    IF IsWhole(DivPow10(v, -f))
    THEN IF v.n = 0 THEN <<"0">> ELSE Digits(Abs(v.n)) \o Zeros(v.x + f)
    ELSE IF f + v.x < -9 THEN <<"0">> ELSE Digits(QuoRem(v, f).q)

\* the digits of |v| * 10^f rounded half away from zero
RoundedDigits(v, f) ==
    IF IsWhole(DivPow10(v, -f))
    THEN IF v.n = 0 THEN <<"0">> ELSE Digits(Abs(v.n)) \o Zeros(v.x + f)
    ELSE Digits(RoundHalfUpAbs(v, f))

\* Number.prototype.toString for |v| >= 1e21: exponential notation
ToStringExp(v) ==
    LET all  == Digits(Abs(v.n))
        ds   == StripTrailingZeros(all)
        ex   == Len(all) - 1 + v.x
    IN  (IF IsNeg(v) THEN <<"-">> ELSE <<>>)
        \o <<ds[1]>>
        \o (IF Len(ds) > 1 THEN <<".">> \o SubSeq(ds, 2, Len(ds)) ELSE <<>>)
        \o <<"e", "+">> \o Digits(ex)

\* |v| written in plain decimal notation with f digits after the point
FixedDecimal(v, f) ==
    LET ds  == RoundedDigits(v, f)
        pad == IF Len(ds) < f + 1 THEN Zeros(f + 1 - Len(ds)) \o ds ELSE ds
        ip  == SubSeq(pad, 1, Len(pad) - f)
        fp  == SubSeq(pad, Len(pad) - f + 1, Len(pad))
    IN  ip \o (IF f > 0 THEN <<".">> \o fp ELSE <<>>)

\* Number.prototype.toFixed(f): plain notation below 1e21, else toString
ToFixed(v, f) ==
    IF GE10(v, 21) THEN ToStringExp(v)
    ELSE (IF IsNeg(v) THEN <<"-">> ELSE <<>>) \o FixedDecimal(v, f)

\* Number.prototype.toExponential(2) of a positive decimal m * 10^x
ToExponential2(v) ==
    LET all  == Digits(v.n)
        len  == Len(all)
        m3   == IF len <= 3 THEN v.n * (10 ^ (3 - len))
                ELSE RoundHalfUpAbs(Dec(v.n, 3 - len), 0)
        \* rounding 9.995 up gives 10.0: one more digit before the point
        ds   == IF m3 = 1000 THEN <<"1", "0", "0">> ELSE Digits(m3)
        ex   == len - 1 + v.x + (IF m3 = 1000 THEN 1 ELSE 0)
    IN  <<ds[1], ".", ds[2], ds[3], "e">>
        \o (IF ex < 0 THEN <<"-">> ELSE <<"+">>) \o Digits(Abs(ex))

\* the locales the process may run under, with their separators
Locales == {"en-US", "de-DE", "fr-FR"}

GroupSep(l) == IF l = "en-US" THEN "," ELSE IF l = "de-DE" THEN "." ELSE " "

DecimalSep(l) == IF l = "en-US" THEN "." ELSE ","

RECURSIVE Grouped(_, _)
\* a digit string with the group separator before every third digit from the right
Grouped(ds, l) ==
    IF Len(ds) <= 3 THEN ds
    ELSE Grouped(SubSeq(ds, 1, Len(ds) - 3), l)
         \o <<GroupSep(l)>> \o SubSeq(ds, Len(ds) - 2, Len(ds))

\* Number.prototype.toLocaleString() of an integer k
ToLocaleInt(k, l) ==
    (IF k < 0 THEN <<"-">> ELSE <<>>) \o Grouped(Digits(Abs(k)), l)

\* toLocaleString(undefined, { maximumFractionDigits: 2 }) of a positive number
ToLocaleMax2(v, l) ==
    LET k  == RoundHalfUpAbs(v, 2)
        fr == k % 100
    IN  Grouped(Digits(k \div 100), l)
        \o (IF fr = 0 THEN <<>>
            ELSE IF fr % 10 = 0 THEN <<DecimalSep(l), DigitChars[(fr \div 10) + 1]>>
            ELSE <<DecimalSep(l), DigitChars[(fr \div 10) + 1], DigitChars[(fr % 10) + 1]>>)

----------------------------------------------------------------------------
(* src/utils/pnlCalculator.ts: calculatePnL, roundPrecision, formatPct *)

\* ((currentPrice - entryPrice) / entryPrice) * 100, for entryPrice > 0
Pct(entryPrice, currentPrice) ==
    LET g  == currentPrice.x - entryPrice.x
        me == entryPrice.n
        mc == currentPrice.n
    IN  IF mc = 0 THEN Num(-me, me, 2)
        ELSE IF g >= AbsorbGap THEN Num(mc \div me, 1, g + 2)
        ELSE IF g <= -AbsorbGap THEN Num(-me, me, 2)
        ELSE IF g >= 0 THEN Num(mc * (10 ^ g) - me, me, 2)
        ELSE Num(mc - me * (10 ^ (-g)), me * (10 ^ (-g)), 2)

\* mutant: the fraction is cut off instead of rounded
roundPrecisionTruncated(v) ==
    IF GE10(v, 3) THEN (IF IsWhole(v) THEN v ELSE Dec(SignOf(v) * QuoRem(v, 0).q, 0))
    ELSE IF GE10(v, 0) THEN Dec(SignOf(v) * QuoRem(v, 2).q, -2)
    ELSE Dec(SignOf(v) * QuoRem(v, 4).q, -4)

\* mutant: the integer tier starts at 100
roundPrecisionTier100(v) ==
    IF GE10(v, 2) THEN (IF IsWhole(v) THEN v ELSE Dec(MathRoundScaled(v, 0), 0))
    ELSE IF GE10(v, 0) THEN Dec(MathRoundScaled(v, 2), -2)
    ELSE Dec(MathRoundScaled(v, 4), -4)

roundPrecision(v) ==
    IF GE10(v, 3) THEN (IF IsWhole(v) THEN v ELSE Dec(MathRoundScaled(v, 0), 0))
    ELSE IF GE10(v, 0) THEN Dec(MathRoundScaled(v, 2), -2)
    ELSE Dec(MathRoundScaled(v, 4), -4)

formatPct(pct) ==
    LET prefix == IF pct.n >= 0 THEN <<"+">> ELSE <<>>
    IN  IF GE10(pct, 6) THEN prefix \o ToFixed(DivPow10(pct, 6), 1) \o <<"M", "%">>
        ELSE IF GE10(pct, 4) THEN prefix \o ToFixed(DivPow10(pct, 3), 1) \o <<"K", "%">>
        ELSE IF GE10(pct, 3)
             THEN prefix \o ToLocaleInt(MathRoundScaled(pct, 0), locale) \o <<"%">>
        ELSE IF GE10(pct, 1) THEN prefix \o ToFixed(pct, 1) \o <<"%">>
        ELSE IF GE10(pct, 0) THEN prefix \o ToFixed(pct, 2) \o <<"%">>
        ELSE prefix \o ToFixed(pct, 4) \o <<"%">>

\* mutant: a zero change is not a profit
calculatePnLStrictProfit(entryPrice, currentPrice) ==
    IF entryPrice.n <= 0 THEN [error |-> TRUE, message |-> "Entry price must be > 0"]
    ELSE IF currentPrice.n < 0
         THEN [error |-> TRUE, message |-> "Current price cannot be negative"]
    ELSE LET pct == Pct(entryPrice, currentPrice)
         IN  [percentageGain |-> roundPrecision(pct),
              isProfit       |-> pct.n > 0,
              formattedGain  |-> formatPct(pct)]

\* mutant: the current price is checked before the entry price
calculatePnLChecksSwapped(entryPrice, currentPrice) ==
    IF currentPrice.n < 0
    THEN [error |-> TRUE, message |-> "Current price cannot be negative"]
    ELSE IF entryPrice.n <= 0
         THEN [error |-> TRUE, message |-> "Entry price must be > 0"]
    ELSE LET pct == Pct(entryPrice, currentPrice)
         IN  [percentageGain |-> roundPrecision(pct),
              isProfit       |-> pct.n >= 0,
              formattedGain  |-> formatPct(pct)]

\* mutant: the display string is derived from the rounded number
calculatePnLChained(entryPrice, currentPrice) ==
    IF entryPrice.n <= 0 THEN [error |-> TRUE, message |-> "Entry price must be > 0"]
    ELSE IF currentPrice.n < 0
         THEN [error |-> TRUE, message |-> "Current price cannot be negative"]
    ELSE LET pct == Pct(entryPrice, currentPrice)
         IN  [percentageGain |-> roundPrecision(pct),
              isProfit       |-> pct.n >= 0,
              formattedGain  |-> formatPct(roundPrecision(pct))]

calculatePnL(entryPrice, currentPrice) ==
    IF entryPrice.n <= 0 THEN [error |-> TRUE, message |-> "Entry price must be > 0"]
    ELSE IF currentPrice.n < 0
         THEN [error |-> TRUE, message |-> "Current price cannot be negative"]
    ELSE LET pct == Pct(entryPrice, currentPrice)
         IN  [percentageGain |-> roundPrecision(pct),
              isProfit       |-> pct.n >= 0,
              formattedGain  |-> formatPct(pct)]

\* 'error' in pnl
IsError(r) == "error" \in DOMAIN r

----------------------------------------------------------------------------
(* Inputs of calculatePnL *)

EntryMants == {-1, 0, 1, 2, 3, 8, 25, 2500001}

CurrentMants ==
    {-1, 0, 1, 4, 5, 15, 24, 84, 20001, 25249, 27499, 79999, 80001, 250015, 2475002, 2500000,
     2525000}

EntryExps == {-20, 0}

Gaps == ((-MaxGap)..MaxGap) \cup {g \in {FarGap, -FarGap} : Abs(g) >= AbsorbGap}

RECURSIVE NumDigits(_)
NumDigits(k) == IF k < 10 THEN 1 ELSE 1 + NumDigits(k \div 10)

\* the model computes the percentage of this pair as the double arithmetic does
Computable(me, mc, g) ==
    \/ me <= 0
    \/ mc <= 0
    \/ /\ Abs(g) >= AbsorbGap
       /\ mc % me = 0
    \/ /\ Abs(g) < AbsorbGap
       /\ NumDigits(mc) + (IF g > 0 THEN g ELSE 0) <= 7
       /\ NumDigits(me) + (IF g < 0 THEN -g ELSE 0) <= 7

PnLInputs ==
    { <<Dec(me, xe), Dec(mc, IF mc = 0 THEN 0 ELSE xe + g)>> :
        <<me, mc, xe, g>> \in
            { t \in EntryMants \X CurrentMants \X EntryExps \X Gaps :
                Computable(t[1], t[2], t[4]) } }

----------------------------------------------------------------------------
(* src/utils/pnlCalculator.ts: formatTokenPrice *)

RECURSIVE LeadingZeros(_)
\* the length of the run of "0" a digit string starts with
LeadingZeros(ds) ==
    IF ds = <<>> \/ ds[1] # "0" THEN 0 ELSE 1 + LeadingZeros(Tail(ds))

\* the 20 digits after the point of price.toFixed(20), for 0 < price < 1
Fraction20(price) ==
    LET ds == RoundedDigits(price, 20)
    IN  IF Len(ds) < 20 THEN Zeros(20 - Len(ds)) \o ds ELSE ds

Min(a, b) == IF a < b THEN a ELSE b

\* price.toFixed(20).match(/0\.(0*)([1-9]\d{0,3})/): <<>> when there is no match,
\* else <<match[1].length, match[2]>>
MatchTiny(price) ==
    LET fr == Fraction20(price)
        k  == LeadingZeros(fr)
    IN  IF k = 20 THEN <<>>
        ELSE <<k, SubSeq(fr, k + 1, Min(k + 4, 20))>>

\* mutant: the thousands tier is tested before the millions tier
formatTokenPriceThousandsFirst(price) ==
    IF price.n <= 0 THEN <<"$", "0">>
    ELSE IF ~GE10(price, -5) /\ MatchTiny(price) # <<>>
    THEN <<"$", "0", ".", "0", "{">> \o Digits(MatchTiny(price)[1]) \o <<"}">>
         \o MatchTiny(price)[2]
    ELSE IF GE10(price, 3) THEN <<"$">> \o ToLocaleMax2(price, locale)
    ELSE IF GE10(price, 6) THEN <<"$">> \o ToFixed(DivPow10(price, 6), 2) \o <<"M">>
    ELSE IF GE10(price, 0) THEN <<"$">> \o ToFixed(price, 2)
    ELSE IF GE10(price, -2) THEN <<"$">> \o ToFixed(price, 4)
    ELSE IF GE10(price, -5) THEN <<"$">> \o ToFixed(price, 6)
    ELSE <<"$">> \o ToExponential2(price)

\* mutant: the zero run is counted one short
formatTokenPriceZeroRunShort(price) ==
    IF price.n <= 0 THEN <<"$", "0">>
    ELSE IF ~GE10(price, -5) /\ MatchTiny(price) # <<>>
    THEN <<"$", "0", ".", "0", "{">> \o Digits(MatchTiny(price)[1] - 1) \o <<"}">>
         \o MatchTiny(price)[2]
    ELSE IF GE10(price, 6) THEN <<"$">> \o ToFixed(DivPow10(price, 6), 2) \o <<"M">>
    ELSE IF GE10(price, 3) THEN <<"$">> \o ToLocaleMax2(price, locale)
    ELSE IF GE10(price, 0) THEN <<"$">> \o ToFixed(price, 2)
    ELSE IF GE10(price, -2) THEN <<"$">> \o ToFixed(price, 4)
    ELSE IF GE10(price, -5) THEN <<"$">> \o ToFixed(price, 6)
    ELSE <<"$">> \o ToExponential2(price)

formatTokenPrice(price) ==
    IF price.n <= 0 THEN <<"$", "0">>
    ELSE IF ~GE10(price, -5) /\ MatchTiny(price) # <<>>
    THEN <<"$", "0", ".", "0", "{">> \o Digits(MatchTiny(price)[1]) \o <<"}">>
         \o MatchTiny(price)[2]
    ELSE IF GE10(price, 6) THEN <<"$">> \o ToFixed(DivPow10(price, 6), 2) \o <<"M">>
    ELSE IF GE10(price, 3) THEN <<"$">> \o ToLocaleMax2(price, locale)
    ELSE IF GE10(price, 0) THEN <<"$">> \o ToFixed(price, 2)
    ELSE IF GE10(price, -2) THEN <<"$">> \o ToFixed(price, 4)
    ELSE IF GE10(price, -5) THEN <<"$">> \o ToFixed(price, 6)
    ELSE <<"$">> \o ToExponential2(price)

----------------------------------------------------------------------------
(* Inputs of formatTokenPrice: the prices a request can carry, up to MAX_PRICE,
   and the non-positive ones the function answers with "$0" *)

PriceMants ==
    {-5, 0, 1, 4, 5, 9, 12, 24, 55, 99995, 99996, 123456, 999999, 1234567, 9999999}

PriceInputs ==
    { v \in { Dec(m, IF m = 0 THEN 0 ELSE x) :
                m \in PriceMants, x \in (-PriceExpDown)..PriceExpUp } :
        LE10(v, 15) }

----------------------------------------------------------------------------
(* JavaScript values of a request body: a type tag, with the number or the
   characters the value carries *)

JsValue(t, num, str) == [t |-> t, num |-> num, str |-> str]

Undefined == JsValue("undefined", Dec(0, 0), <<>>)

Null == JsValue("null", Dec(0, 0), <<>>)

NaN == JsValue("NaN", Dec(0, 0), <<>>)

Infinity == JsValue("Infinity", Dec(0, 0), <<>>)

NumberVal(v) == JsValue("number", v, <<>>)

Str(s) == JsValue("string", <<>> , s)

\* typeof v
TypeOf(v) == IF v.t \in {"number", "NaN", "Infinity"} THEN "number"
             ELSE IF v.t = "null" THEN "object"
             ELSE v.t

\* v == null
IsNullish(v) == v.t \in {"undefined", "null"}

\* !v
Falsy(v) ==
    \/ v.t \in {"undefined", "null", "NaN"}
    \/ v.t = "number" /\ v.num.n = 0
    \/ v.t = "string" /\ v.str = <<>>

\* isFinite(v) for a v of type number
IsFinite(v) == v.t = "number"

\* the white space String.prototype.trim removes (NBSP stands for U+00A0)
WhiteSpace == {" ", "\t", "\n", "\r", "NBSP"}

RECURSIVE TrimStart(_)
TrimStart(s) == IF s # <<>> /\ s[1] \in WhiteSpace THEN TrimStart(Tail(s)) ELSE s

RECURSIVE TrimEnd(_)
TrimEnd(s) ==
    IF s # <<>> /\ s[Len(s)] \in WhiteSpace THEN TrimEnd(SubSeq(s, 1, Len(s) - 1)) ELSE s

\* String.prototype.trim
Trim(s) == TrimEnd(TrimStart(s))

\* a < b for decimals a and b > 0
NumLess(a, b) == a.n <= 0 \/ ~ScaledGE(a.n * b.d, b.n * a.d, a.x - b.x)

----------------------------------------------------------------------------
(* src/routes/cardRoutes.ts: validate *)

THEMES == << <<"d", "a", "r", "k">>, <<"l", "i", "g", "h", "t">>, <<"d", "e", "g", "e", "n">> >>

MAX_PRICE == Dec(1, 15)

MIN_PRICE == Dec(1, -20)

MaxTickerLen == 20

MaxWalletTagLen == 50

MaxTimestampLen == 100

\* THEMES.includes(v)
IsTheme(v) == v.t = "string" /\ \E i \in 1..Len(THEMES) : THEMES[i] = v.str

tickerErrors(b) ==
    IF Falsy(b.ticker) \/ TypeOf(b.ticker) # "string" \/ Trim(b.ticker.str) = <<>>
    THEN <<"ticker is required">>
    ELSE IF Len(b.ticker.str) > MaxTickerLen THEN <<"ticker must be 20 characters or less">>
    ELSE <<>>

\* mutant: the lower bound of entry_price is exclusive
entryPriceErrorsExclusiveMin(b) ==
    IF IsNullish(b.entry_price) THEN <<"entry_price is required">>
    ELSE IF TypeOf(b.entry_price) # "number" \/ ~IsFinite(b.entry_price)
    THEN <<"entry_price must be a valid number">>
    ELSE IF b.entry_price.num.n <= 0 THEN <<"entry_price must be greater than zero">>
    ELSE IF ~NumLess(MIN_PRICE, b.entry_price.num) \/ NumLess(MAX_PRICE, b.entry_price.num)
    THEN <<"entry_price out of range">>
    ELSE <<>>

entryPriceErrors(b) ==
    IF IsNullish(b.entry_price) THEN <<"entry_price is required">>
    ELSE IF TypeOf(b.entry_price) # "number" \/ ~IsFinite(b.entry_price)
    THEN <<"entry_price must be a valid number">>
    ELSE IF b.entry_price.num.n <= 0 THEN <<"entry_price must be greater than zero">>
    ELSE IF NumLess(b.entry_price.num, MIN_PRICE) \/ NumLess(MAX_PRICE, b.entry_price.num)
    THEN <<"entry_price out of range">>
    ELSE <<>>

\* mutant: a negative current_price is not refused
currentPriceErrorsNoSignCheck(b) ==
    IF IsNullish(b.current_price) THEN <<"current_price is required">>
    ELSE IF TypeOf(b.current_price) # "number" \/ ~IsFinite(b.current_price)
    THEN <<"current_price must be a valid number">>
    ELSE IF NumLess(MAX_PRICE, b.current_price.num) THEN <<"current_price out of range">>
    ELSE <<>>

currentPriceErrors(b) ==
    IF IsNullish(b.current_price) THEN <<"current_price is required">>
    ELSE IF TypeOf(b.current_price) # "number" \/ ~IsFinite(b.current_price)
    THEN <<"current_price must be a valid number">>
    ELSE IF b.current_price.num.n < 0 THEN <<"current_price cannot be negative">>
    ELSE IF NumLess(MAX_PRICE, b.current_price.num) THEN <<"current_price out of range">>
    ELSE <<>>

optionalErrors(b) ==
    (IF ~IsNullish(b.theme) /\ ~IsTheme(b.theme)
     THEN <<"theme must be: dark, light, degen">> ELSE <<>>)
    \o (IF ~IsNullish(b.wallet_tag)
           /\ (TypeOf(b.wallet_tag) # "string" \/ Len(b.wallet_tag.str) > MaxWalletTagLen)
        THEN <<"wallet_tag invalid">> ELSE <<>>)
    \o (IF ~IsNullish(b.timestamp)
           /\ (TypeOf(b.timestamp) # "string" \/ Len(b.timestamp.str) > MaxTimestampLen)
        THEN <<"timestamp invalid">> ELSE <<>>)

\* mutant: validation stops at the first field in error
validateFirstErrorOnly(b) ==
    LET e == tickerErrors(b) \o entryPriceErrors(b) \o currentPriceErrors(b)
             \o optionalErrors(b)
    IN  IF e = <<>> THEN e ELSE <<e[1]>>

validate(b) ==
    tickerErrors(b) \o entryPriceErrors(b) \o currentPriceErrors(b) \o optionalErrors(b)

----------------------------------------------------------------------------
(* Inputs of validate *)

Repeat(c, k) == [i \in 1..k |-> c]

TickerValues ==
    { Undefined, Null, NumberVal(Dec(5, 0)), Str(<<>>), Str(<<" ", "\t">>),
      Str(<<"B", "T", "C">>), Str(<<" ", "<", ">">>) }
    \cup { Str(Repeat("A", k)) : k \in MaxTickerLen..(MaxTickerLen + MaxExcess) }

EntryPriceValues ==
    { Undefined, Null, Str(<<"1", "0", "0">>), NaN, Infinity }
    \cup { NumberVal(v) : v \in { Dec(0, 0), Dec(-100, 0), Dec(99, -22), Dec(1, -20),
                                  Dec(100, 0), Dec(1, 15), Dec(11, 14) } }

CurrentPriceValues ==
    { Undefined, Null, Str(<<"2", "0", "0">>), NaN, Infinity }
    \cup { NumberVal(v) : v \in { Dec(0, 0), Dec(-50, 0), Dec(1, -25), Dec(200, 0),
                                  Dec(1, 15), Dec(1, 16) } }

ThemeValues ==
    { Undefined, Str(<<>>), Str(<<"n", "e", "o", "n">>), NumberVal(Dec(1, 0)) }
    \cup { Str(THEMES[i]) : i \in {1, 3} }

WalletTagValues ==
    { Undefined, NumberVal(Dec(7, 0)) }
    \cup { Str(Repeat("w", k)) : k \in MaxWalletTagLen..(MaxWalletTagLen + MaxExcess) }

TimestampValues ==
    { Undefined, NumberVal(Dec(0, 0)) }
    \cup { Str(Repeat("t", k)) : k \in MaxTimestampLen..(MaxTimestampLen + MaxExcess) }

Requests ==
    [ ticker : TickerValues, entry_price : EntryPriceValues,
      current_price : CurrentPriceValues, theme : ThemeValues,
      wallet_tag : WalletTagValues, timestamp : TimestampValues ]

----------------------------------------------------------------------------
(* Each function applied to each input *)

InitPnL ==
    /\ locale \in Locales
    /\ pnlIn \in PnLInputs
    /\ pnl = <<>>
    /\ IdlePrice /\ IdleValidate /\ IdleSanitize /\ IdleRender /\ IdleServer /\ IdleApp
    /\ pc = "call"

CalculatePnL ==
    /\ pc = "call"
    /\ pnlIn # <<>>
    /\ pnl' = calculatePnL(pnlIn[1], pnlIn[2])
    /\ pc' = "return"
    /\ UNCHANGED <<locale, appVars, pnlIn, priceVars, validateVars, sanitizeVars, renderVars, serverVars>>

NextPnL == CalculatePnL

SpecPnL == InitPnL /\ [][NextPnL]_vars

InitPrice ==
    /\ locale \in Locales
    /\ priceIn \in PriceInputs
    /\ priceText = <<>>
    /\ IdlePnL /\ IdleValidate /\ IdleSanitize /\ IdleRender /\ IdleServer /\ IdleApp
    /\ pc = "call"

FormatTokenPrice ==
    /\ pc = "call"
    /\ priceIn # <<>>
    /\ priceText' = formatTokenPrice(priceIn)
    /\ pc' = "return"
    /\ UNCHANGED <<locale, appVars, priceIn, pnlVars, validateVars, sanitizeVars, renderVars, serverVars>>

NextPrice == FormatTokenPrice

SpecPrice == InitPrice /\ [][NextPrice]_vars

InitValidate ==
    /\ locale \in Locales
    /\ request \in Requests
    /\ errors = <<>>
    /\ IdlePnL /\ IdlePrice /\ IdleSanitize /\ IdleRender /\ IdleServer /\ IdleApp
    /\ pc = "call"

Validate ==
    /\ pc = "call"
    /\ request # <<>>
    /\ errors' = validate(request)
    /\ pc' = "return"
    /\ UNCHANGED <<locale, appVars, request, pnlVars, priceVars, sanitizeVars, renderVars, serverVars>>

NextValidate == Validate

SpecValidate == InitValidate /\ [][NextValidate]_vars

----------------------------------------------------------------------------
(* Properties of calculatePnL *)

\* calculatePnL has returned a result, not an error
PnLOk == pc = "return" /\ pnlIn # <<>> /\ ~IsError(pnl)

\* the unrounded percentage of the call
Raw == Pct(pnlIn[1], pnlIn[2])

\* the number of decimals roundPrecision keeps for a value of v's magnitude
TierDigits(v) == IF GE10(v, 3) THEN 0 ELSE IF GE10(v, 0) THEN 2 ELSE 4

\* v * 10^p is the integer k
EqualsScaled(v, p, k) ==
    LET qr == QuoRem(v, p)
    IN  qr.r = 0 /\ qr.q = Abs(k) /\ (k = 0 \/ (k < 0) = IsNeg(v))

\* k is an integer nearest to v * 10^p
NearestScaled(v, p, k) ==
    LET qr == QuoRem(v, p)
    IN  /\ k = 0 \/ (k < 0) = IsNeg(v)
        /\ \/ Abs(k) = qr.q /\ 2 * qr.r <= qr.b
           \/ Abs(k) = qr.q + 1 /\ 2 * qr.r >= qr.b

\* the numbers a (a decimal) and v are equal
SameValue(a, v) ==
    \/ a = v
    \/ a.d = 1 /\ a.x <= 0 /\ a.x >= -4 /\ EqualsScaled(v, -a.x, a.n)

\* v has no digit beyond its tier's precision
Representable(v) == IsWhole(v) \/ QuoRem(v, TierDigits(v)).r = 0

\* C1 as stated: the returned percentageGain equals (current - entry) / entry * 100
\* exactly, for every entry > 0 and current >= 0.
C1_PercentageIsRaw == PnLOk => SameValue(pnl.percentageGain, Raw)

\* C1 amended: percentageGain equals the raw percentage exactly when the raw value
\* has no digit beyond its tier's precision (whole above 1000, 2 decimals from 1,
\* 4 decimals below 1); otherwise it differs from it, by at most half a unit of
\* that precision.
C1_PercentageRawUpToRounding ==
    PnLOk =>
        IF Representable(Raw) THEN SameValue(pnl.percentageGain, Raw)
        ELSE /\ ~SameValue(pnl.percentageGain, Raw)
             /\ pnl.percentageGain.d = 1
             /\ \E k \in {QuoRem(Raw, TierDigits(Raw)).q, QuoRem(Raw, TierDigits(Raw)).q + 1} :
                    /\ SameValue(pnl.percentageGain, Dec(SignOf(Raw) * k, -TierDigits(Raw)))
                    /\ NearestScaled(Raw, TierDigits(Raw), SignOf(Raw) * k)

C1_Witness == PnLOk /\ ~Representable(Raw) /\ ~SameValue(pnl.percentageGain, Raw)

\* entry <= current, for entry > 0 and current >= 0
CurrentAtLeastEntry ==
    ScaledGE(pnlIn[2].n, pnlIn[1].n, pnlIn[2].x - pnlIn[1].x)

\* C2 as stated: isProfit is true exactly when the returned percentageGain is >= 0.
C2_ProfitIffReturnedGainNonNegative ==
    PnLOk => (pnl.isProfit <=> pnl.percentageGain.n >= 0)

\* C2 amended: isProfit is true exactly when the unrounded percentage is >= 0, that
\* is when current >= entry; a profit has percentageGain >= 0, and equal prices
\* give percentageGain 0 and isProfit true.  (A loss too small to survive the
\* rounding has percentageGain 0 and isProfit false.)
C2_ProfitIffCurrentAtLeastEntry ==
    PnLOk =>
        /\ pnl.isProfit <=> CurrentAtLeastEntry
        /\ pnl.isProfit => pnl.percentageGain.n >= 0
        /\ pnlIn[1] = pnlIn[2] => pnl.percentageGain.n = 0 /\ pnl.isProfit

C2_Witness == PnLOk /\ pnlIn[1] = pnlIn[2] /\ pnl.isProfit

\* the tiny loss that the rounding turns into 0
C2_TinyLoss == PnLOk /\ ~pnl.isProfit /\ pnl.percentageGain.n = 0

\* C3: calculatePnL returns the entry-price error whenever entry <= 0 (whatever
\* current is), the current-price error when entry > 0 and current < 0, and a
\* result without error in every other case (current = 0 included).
C3_ErrorExactlyOnBadPrice ==
    (pc = "return" /\ pnlIn # <<>>) =>
        IF pnlIn[1].n <= 0
        THEN pnl = [error |-> TRUE, message |-> "Entry price must be > 0"]
        ELSE IF pnlIn[2].n < 0
        THEN pnl = [error |-> TRUE, message |-> "Current price cannot be negative"]
        ELSE DOMAIN pnl = {"percentageGain", "isProfit", "formattedGain"}

C3_Witness ==
    /\ pc = "return"
    /\ pnlIn # <<>>
    /\ IsError(pnl)
    /\ pnlIn[1].n < 0
    /\ pnlIn[2].n < 0

\* C4: percentageGain is the raw percentage v rounded to the nearest integer when
\* |v| >= 1000, to 2 decimals when 1 <= |v| < 1000, to 4 decimals when |v| < 1.
C4_RoundedByMagnitude ==
    PnLOk =>
        LET g == pnl.percentageGain
            p == IF GE10(Raw, 3) THEN 0 ELSE IF GE10(Raw, 0) THEN 2 ELSE 4
        IN  IF IsWhole(Raw) /\ p = 0 THEN g = Raw
            ELSE /\ g.d = 1
                 /\ g.x + p >= 0
                 /\ NearestScaled(Raw, p, g.n * (10 ^ (g.x + p)))

C4_Witness ==
    /\ PnLOk
    /\ ~IsWhole(Raw)
    /\ GE10(Raw, 0) /\ ~GE10(Raw, 3)
    /\ QuoRem(Raw, 2).r # 0
    /\ pnl.percentageGain.x = -2

\* C5: formattedGain is the raw percentage v rendered by the first matching
\* magnitude tier, always with a leading sign ('+' for v >= 0, '-' for v < 0):
\* |v| >= 1,000,000 -> v/1,000,000 with one decimal and 'M%'; from 10,000 ->
\* v/1,000 with one decimal and 'K%'; from 1,000 -> rounded integer with
\* thousands separators and '%'; from 10 -> one decimal; from 1 -> two decimals;
\* below 1 -> four decimals.
C5_FormattedByTier ==
    PnLOk =>
        pnl.formattedGain =
            (IF Raw.n >= 0 THEN <<"+">> ELSE <<"-">>) \o
            (IF GE10(Raw, 6) THEN FixedDecimal(DivPow10(Raw, 6), 1) \o <<"M", "%">>
             ELSE IF GE10(Raw, 4) THEN FixedDecimal(DivPow10(Raw, 3), 1) \o <<"K", "%">>
             ELSE IF GE10(Raw, 3)
                  THEN Grouped(Digits(Abs(MathRoundScaled(Raw, 0))), locale) \o <<"%">>
             ELSE IF GE10(Raw, 1) THEN FixedDecimal(Raw, 1) \o <<"%">>
             ELSE IF GE10(Raw, 0) THEN FixedDecimal(Raw, 2) \o <<"%">>
             ELSE FixedDecimal(Raw, 4) \o <<"%">>)

\* C6: the rounding tiers and the display tiers are both applied to the same
\* unrounded percentage; formattedGain is never derived from percentageGain.
C6_BothFromRaw ==
    PnLOk =>
        /\ pnl.percentageGain = roundPrecision(Raw)
        /\ pnl.formattedGain = formatPct(Raw)

\* a call where formatting the rounded number would print something else
C6_Witness == PnLOk /\ pnl.formattedGain # formatPct(pnl.percentageGain)

\* v is -100
IsMinus100(v) == v.n < 0 /\ GE10(v, 2) /\ LE10(v, 2)

\* v < -99.995: the values Math.round(v * 100) / 100 takes to -100
RoundsToMinus100(v) ==
    /\ v.n < 0
    /\ LET qr == QuoRem(v, 3) IN qr.q > 99995 \/ (qr.q = 99995 /\ qr.r > 0)

\* t is a loss printed by one of the three fixed-decimal tiers: '-', at most
\* three digits, a point, one, two or four digits, '%'
FixedDecimalLoss(t) ==
    \E k \in 2..5 :
        /\ Len(t) \in {k + 3, k + 4, k + 6}
        /\ t[1] = "-"
        /\ t[k + 1] = "."
        /\ t[Len(t)] = "%"
        /\ \A i \in (2..(Len(t) - 1)) \ {k + 1} : t[i] \in {DigitChars[j] : j \in 1..10}

\* C25 as stated: for entry > 0 and current >= 0 the returned percentageGain is
\* never below -100 and equals -100 exactly when current is 0; so a loss is
\* never formatted with the K%, M% or thousands-grouped tiers.
C25_MinusHundredExactlyAtZero ==
    PnLOk =>
        /\ pnl.percentageGain.n < 0 => LE10(pnl.percentageGain, 2)
        /\ IsMinus100(pnl.percentageGain) <=> pnlIn[2].n = 0
        /\ ~pnl.isProfit => FixedDecimalLoss(pnl.formattedGain)

\* C25 as the code has it: percentageGain is never below -100; it is -100 when
\* current is 0, and also for every current > 0 whose raw percentage is below
\* -99.995 (current below 0.00005 of entry), which the rounding to two decimals
\* takes to -100; a loss is never formatted with the K%, M% or
\* thousands-grouped tiers.
C25_MinusHundredAtZeroAndNearZero ==
    PnLOk =>
        /\ pnl.percentageGain.n < 0 => LE10(pnl.percentageGain, 2)
        /\ pnlIn[2].n = 0 => IsMinus100(pnl.percentageGain)
        /\ IsMinus100(pnl.percentageGain) <=> RoundsToMinus100(Raw)
        /\ ~pnl.isProfit => FixedDecimalLoss(pnl.formattedGain)

\* a positive current price whose loss is returned as -100
C25_Witness ==
    /\ PnLOk
    /\ pnlIn[2].n > 0
    /\ IsMinus100(pnl.percentageGain)
    /\ ~IsMinus100(Raw)
    /\ FixedDecimalLoss(pnl.formattedGain)

\* a total loss: current price 0
C25_WitnessZero ==
    /\ PnLOk
    /\ pnlIn[2].n = 0
    /\ IsMinus100(pnl.percentageGain)
    /\ pnl.formattedGain = <<"-", "1", "0", "0", ".", "0", "%">>

\* a formatted percentage without its sign
Unsigned(t) == IF t[1] \in {"+", "-"} THEN Tail(t) ELSE t

RECURSIVE WholeDigits(_)
\* how many characters a text has before its first point
WholeDigits(t) == IF t = <<>> \/ t[1] = "." THEN 0 ELSE 1 + WholeDigits(Tail(t))

\* how many digits a text has
DigitCount(t) ==
    LET IsDigit(c) == c \in {DigitChars[j] : j \in 1..10}
    IN  Len(SelectSeq(t, IsDigit))

\* |v| < 10^k is within half a unit of the f-th decimal of 10^k
NearBound(v, k, f) ==
    LET qr == QuoRem(v, f)
    IN  qr.q = (10 ^ (k + f)) - 1 /\ 2 * qr.r >= qr.b

\* C28 as stated: the number formatPct prints stays inside the range of the
\* tier that formatted it: below 1 with four decimals, below 10 with two, below
\* 1000 with one, below 10,000 as a grouped integer, a mantissa below 1000 with
\* K%.
C28_PrintedInsideTier ==
    PnLOk =>
        LET t == Unsigned(pnl.formattedGain)
        IN  IF GE10(Raw, 6) THEN TRUE
            ELSE IF GE10(Raw, 4) THEN WholeDigits(t) <= 3
            ELSE IF GE10(Raw, 3) THEN DigitCount(t) <= 4
            ELSE IF GE10(Raw, 1) THEN WholeDigits(t) <= 3
            ELSE IF GE10(Raw, 0) THEN WholeDigits(t) <= 1
            ELSE t[1] = "0"

\* C28 as the code has it: the tier is chosen by the raw value and the number is
\* rounded afterwards, so a raw value within half a unit of the displayed
\* precision below its tier's upper bound is printed as that bound ('1.0000%',
\* '10.00%', '1000.0%', '10,000%', '1000.0K%'); every other value is printed
\* inside its tier's range.
C28_PrintedInsideTierOrAtItsBound ==
    PnLOk =>
        LET t == Unsigned(pnl.formattedGain)
        IN  IF GE10(Raw, 6) THEN TRUE
            ELSE IF GE10(Raw, 4)
            THEN IF NearBound(DivPow10(Raw, 3), 3, 1)
                 THEN t = <<"1", "0", "0", "0", ".", "0", "K", "%">>
                 ELSE WholeDigits(t) <= 3
            ELSE IF GE10(Raw, 3)
            THEN IF NearBound(Raw, 4, 0)
                 THEN t = <<"1", "0", GroupSep(locale), "0", "0", "0", "%">>
                 ELSE DigitCount(t) <= 4
            ELSE IF GE10(Raw, 1)
            THEN IF NearBound(Raw, 3, 1) THEN t = <<"1", "0", "0", "0", ".", "0", "%">>
                 ELSE WholeDigits(t) <= 3
            ELSE IF GE10(Raw, 0)
            THEN IF NearBound(Raw, 1, 2) THEN t = <<"1", "0", ".", "0", "0", "%">>
                 ELSE WholeDigits(t) <= 1
            ELSE IF NearBound(Raw, 0, 4) THEN t = <<"1", ".", "0", "0", "0", "0", "%">>
                 ELSE t[1] = "0"

\* a raw percentage just below 1000, printed by the one-decimal tier
C28_Witness ==
    /\ PnLOk
    /\ GE10(Raw, 1) /\ ~GE10(Raw, 3)
    /\ pnl.formattedGain = <<"+", "1", "0", "0", "0", ".", "0", "%">>

\* the carry in the four-decimal tier (of a loss), the two-decimal tier, the
\* grouped tier and the K% tier
C28_WitnessFourDecimals ==
    PnLOk /\ ~GE10(Raw, 0) /\ pnl.formattedGain = <<"-", "1", ".", "0", "0", "0", "0", "%">>

C28_WitnessTwoDecimals ==
    PnLOk /\ ~GE10(Raw, 1) /\ pnl.formattedGain = <<"+", "1", "0", ".", "0", "0", "%">>

C28_WitnessGrouped ==
    PnLOk /\ ~GE10(Raw, 4) /\ pnl.formattedGain = <<"+", "1", "0", ",", "0", "0", "0", "%">>

C28_WitnessK ==
    PnLOk /\ ~GE10(Raw, 6) /\ pnl.formattedGain = <<"+", "1", "0", "0", "0", ".", "0", "K", "%">>

----------------------------------------------------------------------------
(* Properties of formatTokenPrice *)

PriceDone == pc = "return" /\ priceIn # <<>>

DigitSet == {DigitChars[i] : i \in 1..10}

\* t is "$0.0{k}d": a zero-run length in braces, then one to four digits of
\* which the first is not 0
IsCompact(t) ==
    /\ Len(t) >= 8
    /\ SubSeq(t, 1, 5) = <<"$", "0", ".", "0", "{">>
    /\ \E i \in 7..Len(t) - 1 :
        /\ t[i] = "}"
        /\ \A j \in 6..i - 1 : t[j] \in DigitSet
        /\ Len(t) - i <= 4
        /\ t[i + 1] \in DigitSet \ {"0"}
        /\ \A j \in i + 1..Len(t) : t[j] \in DigitSet

\* t is "$d.dde-n": exponential notation with two fractional digits
IsExponential2(t) ==
    /\ Len(t) >= 8
    /\ t[1] = "$"
    /\ t[2] \in DigitSet \ {"0"}
    /\ t[3] = "."
    /\ t[4] \in DigitSet /\ t[5] \in DigitSet
    /\ t[6] = "e"
    /\ t[7] \in {"+", "-"}
    /\ \A j \in 8..Len(t) : t[j] \in DigitSet

\* what the tiers from 0.00001 upwards print for price
StandardTierText(price) ==
    IF GE10(price, 6) THEN <<"$">> \o FixedDecimal(DivPow10(price, 6), 2) \o <<"M">>
    ELSE IF GE10(price, 3) THEN <<"$">> \o ToLocaleMax2(price, locale)
    ELSE IF GE10(price, 0) THEN <<"$">> \o FixedDecimal(price, 2)
    ELSE IF GE10(price, -2) THEN <<"$">> \o FixedDecimal(price, 4)
    ELSE <<"$">> \o FixedDecimal(price, 6)

\* C7 as stated: the first matching tier applies: p <= 0 -> "$0"; p < 0.00001 ->
\* compact leading-zero notation; p >= 1,000,000 -> p/1,000,000 with 2 decimals
\* and 'M'; from 1,000 -> grouped thousands with at most 2 decimals; from 1 ->
\* 2 decimals; from 0.01 -> 4 decimals; from 0.00001 -> 6 decimals; every input
\* gives one result, which starts with '$'.
C7_FirstMatchingTier ==
    PriceDone =>
        /\ priceText[1] = "$"
        /\ IF priceIn.n <= 0 THEN priceText = <<"$", "0">>
           ELSE IF ~GE10(priceIn, -5) THEN IsCompact(priceText)
           ELSE priceText = StandardTierText(priceIn)

\* C7 amended: as stated, except that a price 0 < p < 0.00001 gets the compact
\* notation only when it is at least 0.000000000000000000005 (its 20-decimal
\* expansion has a non-zero digit); a smaller positive price matches no tier
\* and is printed in exponential notation with two fractional digits.
C7_FirstMatchingTierOrExponential ==
    PriceDone =>
        /\ priceText[1] = "$"
        /\ IF priceIn.n <= 0 THEN priceText = <<"$", "0">>
           ELSE IF ~GE10(priceIn, -5)
           THEN IF ScaledGE(2 * priceIn.n, priceIn.d, priceIn.x + 20)
                THEN IsCompact(priceText)
                ELSE IsExponential2(priceText)
           ELSE priceText = StandardTierText(priceIn)

\* a price in the grouped-thousands tier printed with a fraction
C7_Witness ==
    /\ PriceDone
    /\ GE10(priceIn, 3) /\ ~GE10(priceIn, 6)
    /\ \E i \in 1..Len(priceText) : priceText[i] = GroupSep(locale)
    /\ Len(priceText) >= 3
    /\ priceText[Len(priceText) - 2] = DecimalSep(locale)

\* the digits of p * 10^20 rounded to an integer, left-padded to 20 digits
Expansion20(v) ==
    LET k  == RoundHalfUpAbs(v, 20)
        ds == IF v.x + 20 >= 0 THEN Digits(v.n) \o Zeros(v.x + 20) ELSE Digits(k)
    IN  Zeros(20 - Len(ds)) \o ds

\* C8: for 0 < p < 0.00001 the result is "$0.0{k}d" with k the number of zeros
\* between the point and the first non-zero digit of p's 20-decimal expansion
\* and d that digit followed by at most three further digits of the expansion;
\* with no non-zero digit in 20 decimals the result is exponential notation
\* with two fractional digits.
C8_CompactNotation ==
    (PriceDone /\ priceIn.n > 0 /\ ~GE10(priceIn, -5)) =>
        LET ex == Expansion20(priceIn)
            nz == {i \in 1..20 : ex[i] # "0"}
        IN  IF nz = {} THEN IsExponential2(priceText)
            ELSE LET first == CHOOSE i \in nz : \A j \in nz : i <= j
                     last  == IF first + 3 <= 20 THEN first + 3 ELSE 20
                 IN  priceText = <<"$", "0", ".", "0", "{">> \o Digits(first - 1)
                                   \o <<"}">> \o SubSeq(ex, first, last)

\* a price so close to the 20th decimal that fewer than four digits are left
C8_Witness ==
    /\ PriceDone
    /\ priceIn.n > 0
    /\ IsCompact(priceText)
    /\ priceText[Len(priceText) - 2] = "}"

\* a positive price whose 20 decimals are all zero
C8_WitnessExponential ==
    /\ PriceDone
    /\ priceIn.n > 0
    /\ ~GE10(priceIn, -5)
    /\ IsExponential2(priceText)

----------------------------------------------------------------------------
(* Properties of validate *)

Validated == pc = "return" /\ request # <<>>

Fields == {"ticker", "entry_price", "current_price", "theme", "wallet_tag", "timestamp"}

\* the messages validate has for each field
FieldMessages(f) ==
    CASE f = "ticker" -> {"ticker is required", "ticker must be 20 characters or less"}
      [] f = "entry_price" ->
            {"entry_price is required", "entry_price must be a valid number",
             "entry_price must be greater than zero", "entry_price out of range"}
      [] f = "current_price" ->
            {"current_price is required", "current_price must be a valid number",
             "current_price cannot be negative", "current_price out of range"}
      [] f = "theme" -> {"theme must be: dark, light, degen"}
      [] f = "wallet_tag" -> {"wallet_tag invalid"}
      [] f = "timestamp" -> {"timestamp invalid"}

\* the entries of the returned list that are about field f
EntriesFor(f) == {i \in 1..Len(errors) : errors[i] \in FieldMessages(f)}

\* the rule of each field, as the specification words it
SatisfiesRule(f, b) ==
    CASE f = "ticker" ->
            /\ b.ticker.t = "string"
            /\ \E i \in 1..Len(b.ticker.str) : b.ticker.str[i] \notin WhiteSpace
            /\ Len(b.ticker.str) <= 20
      [] f = "entry_price" ->
            /\ b.entry_price.t = "number"
            /\ b.entry_price.num.n > 0
            /\ GE10(b.entry_price.num, -20)
            /\ LE10(b.entry_price.num, 15)
      [] f = "current_price" ->
            /\ b.current_price.t = "number"
            /\ b.current_price.num.n >= 0
            /\ LE10(b.current_price.num, 15)
      [] f = "theme" ->
            \/ b.theme.t \in {"undefined", "null"}
            \/ /\ b.theme.t = "string"
               /\ b.theme.str \in { <<"d", "a", "r", "k">>, <<"l", "i", "g", "h", "t">>,
                                    <<"d", "e", "g", "e", "n">> }
      [] f = "wallet_tag" ->
            \/ b.wallet_tag.t \in {"undefined", "null"}
            \/ b.wallet_tag.t = "string" /\ Len(b.wallet_tag.str) <= 50
      [] f = "timestamp" ->
            \/ b.timestamp.t \in {"undefined", "null"}
            \/ b.timestamp.t = "string" /\ Len(b.timestamp.str) <= 100

\* C9: validate collects the errors of all fields: the returned list has exactly
\* one entry for each field that violates its rule, none for a field that
\* satisfies it, and nothing else; with the three required fields missing it
\* holds one 'required' entry for each of them.
C9_OneErrorPerViolatingField ==
    Validated =>
        /\ \A f \in Fields :
              Cardinality(EntriesFor(f)) = IF SatisfiesRule(f, request) THEN 0 ELSE 1
        /\ Len(errors) = Cardinality({f \in Fields : ~SatisfiesRule(f, request)})
        /\ ( /\ request.ticker.t \in {"undefined", "null"}
             /\ request.entry_price.t \in {"undefined", "null"}
             /\ request.current_price.t \in {"undefined", "null"} )
           => SubSeq(errors, 1, 3) = <<"ticker is required", "entry_price is required",
                                       "current_price is required">>

\* the three required fields are missing and an optional one is invalid too
C9_Witness ==
    /\ Validated
    /\ request.ticker = Undefined
    /\ request.entry_price = Undefined
    /\ request.current_price = Undefined
    /\ Len(errors) = 4

\* C10: entry_price is accepted exactly when it is a finite number with
\* 1e-20 <= entry_price <= 1e15, current_price exactly when it is a finite number
\* with 0 <= current_price <= 1e15 (bounds inclusive, zero accepted); a missing
\* or null value is reported as required, a non-number or non-finite one as not
\* a valid number.
C10_PriceRanges ==
    Validated =>
        LET ep == request.entry_price
            cp == request.current_price
        IN  /\ EntriesFor("entry_price") = {}
                <=> (ep.t = "number" /\ ep.num.n > 0 /\ GE10(ep.num, -20) /\ LE10(ep.num, 15))
            /\ EntriesFor("current_price") = {}
                <=> (cp.t = "number" /\ cp.num.n >= 0 /\ LE10(cp.num, 15))
            /\ ep.t \in {"undefined", "null"}
                => \E i \in 1..Len(errors) : errors[i] = "entry_price is required"
            /\ cp.t \in {"undefined", "null"}
                => \E i \in 1..Len(errors) : errors[i] = "current_price is required"
            /\ ep.t \in {"string", "boolean", "NaN", "Infinity"}
                => \E i \in 1..Len(errors) : errors[i] = "entry_price must be a valid number"
            /\ cp.t \in {"string", "boolean", "NaN", "Infinity"}
                => \E i \in 1..Len(errors) : errors[i] = "current_price must be a valid number"

\* both prices on their inclusive bounds, both accepted
C10_Witness ==
    /\ Validated
    /\ request.entry_price = NumberVal(Dec(1, -20))
    /\ request.current_price = NumberVal(Dec(1, 15))
    /\ EntriesFor("entry_price") = {}
    /\ EntriesFor("current_price") = {}

\* a zero current_price, accepted
C10_WitnessZero ==
    /\ Validated
    /\ request.current_price = NumberVal(Dec(0, 0))
    /\ EntriesFor("current_price") = {}

----------------------------------------------------------------------------
(* src/utils/errorHandler.ts: sanitizeString, sanitizeTicker *)

\* Characters outside printable ASCII are written by name: NUL is U+0000, US is
\* U+001F, DEL is U+007F, NBSP is U+00A0, sharp-s is U+00DF.

LowerLetters ==
    <<"a", "b", "c", "d", "e", "f", "g", "h", "i", "j", "k", "l", "m",
      "n", "o", "p", "q", "r", "s", "t", "u", "v", "w", "x", "y", "z">>

UpperLetters ==
    <<"A", "B", "C", "D", "E", "F", "G", "H", "I", "J", "K", "L", "M",
      "N", "O", "P", "Q", "R", "S", "T", "U", "V", "W", "X", "Y", "Z">>

Range(f) == { f[i] : i \in DOMAIN f }

\* the upper-case mapping of one character; that of sharp-s is two characters
UpperOf(c) ==
    IF c \in Range(LowerLetters)
    THEN <<UpperLetters[CHOOSE i \in 1..26 : LowerLetters[i] = c]>>
    ELSE IF c = "sharp-s" THEN <<"S", "S">>
    ELSE <<c>>

RECURSIVE ToUpperCase(_)
\* String.prototype.toUpperCase
ToUpperCase(s) == IF s = <<>> THEN <<>> ELSE UpperOf(Head(s)) \o ToUpperCase(Tail(s))

\* the characters /[^A-Z0-9$]/ does not match
TickerChars == Range(UpperLetters) \cup Range(DigitChars) \cup {"$"}

IsTickerChar(c) == c \in TickerChars

\* the characters /[\x00-\x1F\x7F<>]/ matches
StrippedChars == {"NUL", "\t", "\n", "\r", "US", "DEL", "<", ">"}

IsKeptChar(c) == c \notin StrippedChars

\* s.slice(0, k) for an integer k >= 0
SliceTo(s, k) == SubSeq(s, 1, Min(k, Len(s)))

\* a non-negative integer as a JavaScript number
IntVal(k) == NumberVal(Dec(k, 0))

DefaultMaxLength == 100

\* the strip and the trim exchanged
sanitizeStringTrimFirst(input, maxLength) ==
    IF TypeOf(input) # "string" THEN <<>>
    ELSE SliceTo(SelectSeq(Trim(input.str), IsKeptChar),
                 IF maxLength = Undefined THEN DefaultMaxLength ELSE maxLength.num.n)

\* maxLength is Undefined when the caller passes one argument
sanitizeString(input, maxLength) ==
    IF TypeOf(input) # "string" THEN <<>>
    ELSE SliceTo(Trim(SelectSeq(input.str, IsKeptChar)),
                 IF maxLength = Undefined THEN DefaultMaxLength ELSE maxLength.num.n)

\* the strip done before the upper-casing
sanitizeTickerStripFirst(ticker) ==
    IF TypeOf(ticker) # "string" THEN <<>>
    ELSE SliceTo(ToUpperCase(SelectSeq(ticker.str, IsTickerChar)), 20)

sanitizeTicker(ticker) ==
    IF TypeOf(ticker) # "string" THEN <<>>
    ELSE SliceTo(SelectSeq(ToUpperCase(ticker.str), IsTickerChar), MaxTickerLen)

----------------------------------------------------------------------------
(* Inputs of the sanitizers *)

\* longest string built from every combination of SanChars
MaxSanLen == 3

SanChars == {"a", "Z", "7", "$", " ", "-", "<", ">", "\t", "NUL", "DEL", "NBSP", "sharp-s"}

ShortStrings == UNION { [1..k -> SanChars] : k \in 0..MaxSanLen }

Pads == { <<>>, <<" ">>, <<"<">>, <<"a", " ">> }

\* strings around the ceilings 20, 50 and 100
LongStrings ==
    { l \o Repeat(c, k) \o r :
        l \in Pads, r \in Pads, c \in {"a", "7"},
        k \in { MaxTickerLen - 1, MaxTickerLen + MaxExcess,
                DefaultMaxLength - 1, DefaultMaxLength + MaxExcess } }

SanitizerInputs ==
    { Undefined, Null, NumberVal(Dec(123, 0)) }
    \cup { Str(t) : t \in ShortStrings \cup LongStrings }

MaxLengths == { Undefined, IntVal(0), IntVal(1), IntVal(2), IntVal(MaxWalletTagLen), IntVal(DefaultMaxLength) }

InitSanitize ==
    /\ locale \in {"en-US"}
    /\ sanIn \in ( [ fn : {"sanitizeTicker"}, input : SanitizerInputs, maxLength : {Undefined} ]
                   \cup [ fn : {"sanitizeString"}, input : SanitizerInputs,
                          maxLength : MaxLengths ] )
    /\ sanOut = <<>>
    /\ IdlePnL /\ IdlePrice /\ IdleValidate /\ IdleRender /\ IdleServer /\ IdleApp
    /\ pc = "call"

SanitizeTicker ==
    /\ pc = "call"
    /\ sanIn # <<>>
    /\ sanIn.fn = "sanitizeTicker"
    /\ sanOut' = sanitizeTicker(sanIn.input)
    /\ pc' = "return"
    /\ UNCHANGED <<locale, appVars, sanIn, pnlVars, priceVars, validateVars, renderVars, serverVars>>

SanitizeString ==
    /\ pc = "call"
    /\ sanIn # <<>>
    /\ sanIn.fn = "sanitizeString"
    /\ sanOut' = sanitizeString(sanIn.input, sanIn.maxLength)
    /\ pc' = "return"
    /\ UNCHANGED <<locale, appVars, sanIn, pnlVars, priceVars, validateVars, renderVars, serverVars>>

NextSanitize == SanitizeTicker \/ SanitizeString

SpecSanitize == InitSanitize /\ [][NextSanitize]_vars

----------------------------------------------------------------------------
(* Properties of the sanitizers *)

TickerSanitized == pc = "return" /\ sanIn # <<>> /\ sanIn.fn = "sanitizeTicker"

StringSanitized == pc = "return" /\ sanIn # <<>> /\ sanIn.fn = "sanitizeString"

\* C13: sanitizeTicker returns at most 20 characters, all of them in A-Z, 0-9
\* or '$': the first 20 of the upper-cased input's characters that are in that
\* set, in their order; a non-string gives the empty string; and sanitizing
\* the result again returns it unchanged.
C13_TickerCharsetLengthIdempotent ==
    TickerSanitized =>
        /\ Len(sanOut) <= 20
        /\ \A i \in 1..Len(sanOut) : sanOut[i] \in TickerChars
        /\ sanitizeTicker(Str(sanOut)) = sanOut
        /\ IF sanIn.input.t = "string"
           THEN LET kept == SelectSeq(ToUpperCase(sanIn.input.str), IsTickerChar)
                IN  /\ Len(sanOut) = Min(20, Len(kept))
                    /\ \A i \in 1..Len(sanOut) : sanOut[i] = kept[i]
           ELSE sanOut = <<>>

\* a lower-case letter survives in upper case, next to stripped characters
C13_Witness ==
    /\ TickerSanitized
    /\ sanIn.input = Str(<<"a", "<", "$">>)
    /\ sanOut = <<"A", "$">>

\* an input of more than 20 allowed characters is cut to 20
C13_WitnessTruncated ==
    /\ TickerSanitized
    /\ sanIn.input.t = "string"
    /\ Len(sanIn.input.str) > 20
    /\ Len(sanOut) = 20

\* C14: sanitizeString(s, n) removes the characters 0x00-0x1F, 0x7F, '<' and
\* '>', then trims, then keeps the first n characters (100 when n is not
\* given): the result holds none of the removed characters, is at most n long,
\* and is the empty string for a non-string input.
C14_StripTrimTruncate ==
    StringSanitized =>
        LET n == IF sanIn.maxLength = Undefined THEN 100 ELSE sanIn.maxLength.num.n
        IN  /\ Len(sanOut) <= n
            /\ \A i \in 1..Len(sanOut) : sanOut[i] \notin StrippedChars
            /\ IF sanIn.input.t = "string"
               THEN LET trimmed == Trim(SelectSeq(sanIn.input.str, IsKeptChar))
                    IN  /\ Len(sanOut) = Min(n, Len(trimmed))
                        /\ \A i \in 1..Len(sanOut) : sanOut[i] = trimmed[i]
               ELSE sanOut = <<>>

\* the white space a removed character uncovers is trimmed too
C14_Witness ==
    /\ StringSanitized
    /\ sanIn.input = Str(<<"<", " ", "a">>)
    /\ sanIn.maxLength = Undefined
    /\ sanOut = <<"a">>

\* a string of more than 100 kept characters, no length given
C14_WitnessDefault ==
    /\ StringSanitized
    /\ sanIn.maxLength = Undefined
    /\ sanIn.input.t = "string"
    /\ Len(sanOut) = 100
    /\ Len(sanIn.input.str) > 100

\* sanitizeString applied to its own result, with the same maximum length
SanitizedAgain == sanitizeString(Str(sanOut), sanIn.maxLength)

EndsWithWhiteSpace(s) == s # <<>> /\ s[Len(s)] \in WhiteSpace

\* C29 as stated: sanitizeString is idempotent for every string and maximum
\* length; its result never begins or ends with white space, also when the
\* input was cut to n characters.
C29_Idempotent ==
    StringSanitized =>
        /\ SanitizedAgain = sanOut
        /\ sanOut # <<>> => sanOut[1] \notin WhiteSpace
        /\ ~EndsWithWhiteSpace(sanOut)

\* C29 as the code has it: the result never begins with white space; it ends
\* with white space exactly when the stripped and trimmed text is longer than n
\* and its n-th character is white space, because the cut comes after the
\* trim; sanitizing it again then trims that white space off, and in every
\* other case returns it unchanged.
C29_IdempotentUnlessCutAtWhiteSpace ==
    StringSanitized =>
        LET n == IF sanIn.maxLength = Undefined THEN 100 ELSE sanIn.maxLength.num.n
            trimmed == IF sanIn.input.t = "string"
                       THEN Trim(SelectSeq(sanIn.input.str, IsKeptChar)) ELSE <<>>
        IN  /\ sanOut # <<>> => sanOut[1] \notin WhiteSpace
            /\ EndsWithWhiteSpace(sanOut)
                  <=> (n >= 1 /\ Len(trimmed) > n /\ trimmed[n] \in WhiteSpace)
            /\ (SanitizedAgain = sanOut) <=> ~EndsWithWhiteSpace(sanOut)
            /\ SanitizedAgain = Trim(sanOut)
            /\ sanitizeString(Str(SanitizedAgain), sanIn.maxLength) = SanitizedAgain

\* 'a Z' cut to two characters keeps the space; sanitizing again removes it
C29_Witness ==
    /\ StringSanitized
    /\ sanIn.input = Str(<<"a", " ", "Z">>)
    /\ sanIn.maxLength = IntVal(2)
    /\ sanOut = <<"a", " ">>
    /\ SanitizedAgain = <<"a">>

\* a cut that does not end at white space: the result is a fixed point
C29_WitnessFixedPoint ==
    /\ StringSanitized
    /\ sanIn.input = Str(<<" ", "a", "Z">>)
    /\ sanIn.maxLength = IntVal(1)
    /\ sanOut = <<"a">>
    /\ SanitizedAgain = sanOut

----------------------------------------------------------------------------
(* src/services/cardRenderer.ts: getColors, roundedRect, drawDegenEffects,  *)
(* renderCard                                                               *)

\* The 2-D context is a record of its drawing state, every value a string.  A
\* command is a property assignment or a method call; renderCard is the list
\* of commands the code issues, and what it draws is every method call together
\* with the drawing state it was made in.  The PNG encoder is a function of
\* that list.

CARD_WIDTH == 1200

CARD_HEIGHT == 630

\* the state of a new context
NewContext ==
    [ fillStyle |-> "#000000", strokeStyle |-> "#000000", lineWidth |-> "1",
      font |-> "10px sans-serif", textAlign |-> "start", textBaseline |-> "alphabetic",
      globalAlpha |-> "1", shadowColor |-> "rgba(0, 0, 0, 0)", shadowBlur |-> "0" ]

\* ctx.prop = value
Assign(prop, value) == [op |-> "set", prop |-> prop, value |-> value, args |-> <<>>, text |-> <<>>]

\* ctx.op(args)
Call(op, args) == [op |-> op, prop |-> "", value |-> "", args |-> args, text |-> <<>>]

\* ctx.fillText(text, x, y)
FillText(text, x, y) == [op |-> "fillText", prop |-> "", value |-> "", args |-> <<x, y>>, text |-> text]

RECURSIVE Issue(_, _, _, _)
\* commands lo..hi issued on a context in state ctx: the state they leave and the
\* method calls among them, each with the drawing state it is made in
Issue(cmds, lo, hi, ctx) ==
    IF lo > hi THEN [ctx |-> ctx, out |-> <<>>]
    ELSE IF lo = hi
    THEN LET c == cmds[lo]
         IN  IF c.op = "set"
             THEN [ctx |-> [ctx EXCEPT ![c.prop] = c.value], out |-> <<>>]
             ELSE [ctx |-> ctx,
                   out |-> <<[op |-> c.op, args |-> c.args, text |-> c.text, ctx |-> ctx]>>]
    ELSE LET mid   == (lo + hi) \div 2
             left  == Issue(cmds, lo, mid, ctx)
             right == Issue(cmds, mid + 1, hi, left.ctx)
         IN  [out |-> left.out \o right.out, ctx |-> right.ctx]

\* what a command list draws on a new context
Drawing(cmds) == Issue(cmds, 1, Len(cmds), NewContext).out

\* every theme given the dark palette
getColorsDarkOnly(theme) ==
    [ bg |-> "linear(0,0,0,630) 0 #0d0d0d 1 #1a1a2e", bgBox |-> "#252540", text |-> "#fff",
      textDim |-> "#888899", profit |-> "#00ff88", loss |-> "#f46", border |-> "" ]

\* the palette of a theme; bg is the gradient with its end points and stops
getColors(theme) ==
    IF theme = THEMES[2]
    THEN [ bg |-> "linear(0,0,0,630) 0 #fff 1 #f0f0f5", bgBox |-> "#e8e8f0", text |-> "#1a1a2e",
           textDim |-> "#666680", profit |-> "#00aa55", loss |-> "#dd3355", border |-> "#d0d0e0" ]
    ELSE IF theme = THEMES[3]
    THEN [ bg |-> "linear(0,0,1200,630) 0 #0a0015 0.5 #1a0030 1 #0f1a00", bgBox |-> "#2a1050",
           text |-> "#fff", textDim |-> "#aa88ff", profit |-> "#0f0", loss |-> "#f06",
           border |-> "" ]
    ELSE [ bg |-> "linear(0,0,0,630) 0 #0d0d0d 1 #1a1a2e", bgBox |-> "#252540", text |-> "#fff",
           textDim |-> "#888899", profit |-> "#00ff88", loss |-> "#f46", border |-> "" ]

roundedRect(x, y, w, h, r) ==
    << Call("beginPath", <<>>),
       Call("moveTo", <<x + r, y>>),
       Call("arcTo", <<x + w, y, x + w, y + h, r>>),
       Call("arcTo", <<x + w, y + h, x, y + h, r>>),
       Call("arcTo", <<x, y + h, x, y, r>>),
       Call("arcTo", <<x, y, x + w, y, r>>),
       Call("closePath", <<>>) >>

\* the scanlines without the corner accents
drawDegenEffectsNoCorners ==
    << Assign("globalAlpha", "0.03"), Assign("fillStyle", "#fff") >>
    \o [ i \in 1..((CARD_HEIGHT + 3) \div 4) |->
            Call("fillRect", <<0, 4 * (i - 1), CARD_WIDTH, 1>>) ]
    \o << Assign("globalAlpha", "1") >>

\* globalAlpha left at 0.5 after the corner accents
drawDegenEffectsNoRestore ==
    LET s == 100
        corners ==
            << <<0, s, 0, 0, s, 0>>,
               <<CARD_WIDTH - s, 0, CARD_WIDTH, 0, CARD_WIDTH, s>>,
               <<0, CARD_HEIGHT - s, 0, CARD_HEIGHT, s, CARD_HEIGHT>>,
               <<CARD_WIDTH - s, CARD_HEIGHT, CARD_WIDTH, CARD_HEIGHT, CARD_WIDTH, CARD_HEIGHT - s>> >>
        accent(c) ==
            << Call("beginPath", <<>>), Call("moveTo", <<c[1], c[2]>>),
               Call("lineTo", <<c[3], c[4]>>), Call("lineTo", <<c[5], c[6]>>),
               Call("stroke", <<>>) >>
    IN  << Assign("globalAlpha", "0.03"), Assign("fillStyle", "#fff") >>
        \o [ i \in 1..((CARD_HEIGHT + 3) \div 4) |->
                Call("fillRect", <<0, 4 * (i - 1), CARD_WIDTH, 1>>) ]
        \o << Assign("globalAlpha", "0.5"), Assign("strokeStyle", "#f0f"), Assign("lineWidth", "3") >>
        \o accent(corners[1]) \o accent(corners[2]) \o accent(corners[3]) \o accent(corners[4])

drawDegenEffects ==
    LET s == 100
        corners ==
            << <<0, s, 0, 0, s, 0>>,
               <<CARD_WIDTH - s, 0, CARD_WIDTH, 0, CARD_WIDTH, s>>,
               <<0, CARD_HEIGHT - s, 0, CARD_HEIGHT, s, CARD_HEIGHT>>,
               <<CARD_WIDTH - s, CARD_HEIGHT, CARD_WIDTH, CARD_HEIGHT, CARD_WIDTH, CARD_HEIGHT - s>> >>
        accent(c) ==
            << Call("beginPath", <<>>), Call("moveTo", <<c[1], c[2]>>),
               Call("lineTo", <<c[3], c[4]>>), Call("lineTo", <<c[5], c[6]>>),
               Call("stroke", <<>>) >>
    IN  << Assign("globalAlpha", "0.03"), Assign("fillStyle", "#fff") >>
        \o [ i \in 1..((CARD_HEIGHT + 3) \div 4) |->
                Call("fillRect", <<0, 4 * (i - 1), CARD_WIDTH, 1>>) ]
        \o << Assign("globalAlpha", "0.5"), Assign("strokeStyle", "#f0f"), Assign("lineWidth", "3") >>
        \o accent(corners[1]) \o accent(corners[2]) \o accent(corners[3]) \o accent(corners[4])
        \o << Assign("globalAlpha", "1") >>

\* the gain and the current price always in the profit colour
pnlColorAlwaysProfit(data, colors) == colors.profit

\* const pnlColor = data.pnl.isProfit ? colors.profit : colors.loss
pnlColorOf(data, colors) == IF data.pnl.isProfit THEN colors.profit ELSE colors.loss

\* the statements of renderCard on its context, in order; data is
\* [tokenSymbol, entryPrice, currentPrice, pnl, walletTag, timestamp], walletTag
\* and timestamp strings or undefined
renderCommands(data, theme) ==
    LET colors == getColors(theme)
        pnlColor == pnlColorOf(data, colors)
        pad == 60
        cx == CARD_WIDTH \div 2
        boxW == 480
        boxH == 100
        boxY == 380
        gap == 40
        entryX == cx - boxW - gap \div 2
        currX == cx + gap \div 2
        footerY == CARD_HEIGHT - pad - 10
    IN  (
          << Assign("fillStyle", colors.bg), Call("fillRect", <<0, 0, CARD_WIDTH, CARD_HEIGHT>>) >>
          \o (IF theme = THEMES[3] THEN drawDegenEffects ELSE <<>>)
          \o (IF colors.border # ""
              THEN << Assign("strokeStyle", colors.border), Assign("lineWidth", "2"),
                      Call("strokeRect", <<1, 1, CARD_WIDTH - 2, CARD_HEIGHT - 2>>) >>
              ELSE <<>>)
          \* header
          \o << Assign("fillStyle", colors.text), Assign("font", "bold 72px Roboto"),
                Assign("textAlign", "left"), Assign("textBaseline", "top"),
                FillText(<<"$">> \o ToUpperCase(data.tokenSymbol), pad, pad),
                Assign("fillStyle", colors.textDim), Assign("font", "bold 28px Roboto"),
                Assign("textAlign", "right"),
                FillText(<<"P", "&", "L", " ", "C", "A", "R", "D">>, CARD_WIDTH - pad, pad + 10) >>
          \* main percentage
          \o << Assign("fillStyle", pnlColor), Assign("font", "bold 140px Roboto"),
                Assign("textAlign", "center"), Assign("textBaseline", "middle"),
                FillText(data.pnl.formattedGain, cx, 270) >>
          \o (IF theme = THEMES[3]
              THEN << Assign("shadowColor", pnlColor), Assign("shadowBlur", "30"),
                      FillText(data.pnl.formattedGain, cx, 270), Assign("shadowBlur", "0") >>
              ELSE <<>>)
          \* price boxes
          \o roundedRect(entryX, boxY, boxW, boxH, 16)
          \o << Assign("fillStyle", colors.bgBox), Call("fill", <<>>),
                Assign("fillStyle", colors.textDim), Assign("font", "bold 24px Roboto"),
                Assign("textBaseline", "top"),
                FillText(<<"E", "N", "T", "R", "Y">>, entryX + boxW \div 2, boxY + 15),
                Assign("fillStyle", colors.text), Assign("font", "bold 36px Roboto"),
                FillText(formatTokenPrice(data.entryPrice), entryX + boxW \div 2, boxY + 50) >>
          \o roundedRect(currX, boxY, boxW, boxH, 16)
          \o << Assign("fillStyle", colors.bgBox), Call("fill", <<>>),
                Assign("fillStyle", colors.textDim), Assign("font", "bold 24px Roboto"),
                FillText(<<"C", "U", "R", "R", "E", "N", "T">>, currX + boxW \div 2, boxY + 15),
                Assign("fillStyle", pnlColor), Assign("font", "bold 36px Roboto"),
                FillText(formatTokenPrice(data.currentPrice), currX + boxW \div 2, boxY + 50),
                Assign("fillStyle", colors.textDim), Assign("font", "bold 40px Roboto"),
                Assign("textBaseline", "middle"),
                FillText(<<"arrow">>, cx, boxY + boxH \div 2) >>
          \* footer
          \o << Assign("font", "bold 24px Roboto"), Assign("textBaseline", "bottom") >>
          \o (IF ~Falsy(data.walletTag)
              THEN << Assign("fillStyle", colors.textDim), Assign("textAlign", "left"),
                      FillText(data.walletTag.str, pad, footerY) >>
              ELSE <<>>)
          \o (IF ~Falsy(data.timestamp)
              THEN << Assign("fillStyle", colors.textDim), Assign("font", "22px Roboto"),
                      Assign("textAlign", "center"), FillText(data.timestamp.str, cx, footerY) >>
              ELSE <<>>)
          \o << Assign("fillStyle", colors.textDim), Assign("font", "bold 20px Roboto"),
                Assign("textAlign", "right"), Assign("globalAlpha", "0.6"),
                FillText(<<"F", "L", "E", "X", " ", "C", "A", "R", "D">>, CARD_WIDTH - pad, footerY),
                Assign("globalAlpha", "1") >>)

\* what renderCard draws: the PNG is encoded from it
renderCard(data, theme) == Drawing(renderCommands(data, theme))

\* the state renderCard leaves its context in
contextAfterRender(data, theme) ==
    LET cmds == renderCommands(data, theme)
    IN  Issue(cmds, 1, Len(cmds), NewContext).ctx

----------------------------------------------------------------------------
(* Inputs of renderCard: the card data the POST handler builds *)

\* cardRoutes.ts:82-89, from the sanitized ticker, the two prices and the footer strings
CardDataOf(tokenSymbol, entryPrice, currentPrice, walletTag, timestamp) ==
    [ tokenSymbol |-> tokenSymbol, entryPrice |-> entryPrice, currentPrice |-> currentPrice,
      pnl |-> calculatePnL(entryPrice, currentPrice),
      walletTag |-> walletTag, timestamp |-> timestamp ]

RenderTokens == { <<>>, <<"$">>, <<"B", "T", "C">>, <<"E", "T", "H">> }

RenderEntryPrices == { Dec(100, 0), Dec(100001, -3), Dec(100002, -3), Dec(5, -1) }

RenderCurrentPrices == { Dec(0, 0), Dec(50, 0), Dec(200, 0), Dec(200001, -3), Dec(5000, 0) }

RenderPricePairs ==
    { pr \in RenderEntryPrices \X RenderCurrentPrices :
        Computable(pr[1].n, pr[2].n, pr[2].x - pr[1].x) }

RenderWalletTags == { Undefined, Str(<<"@", "m", "e">>) }

RenderTimestamps == { Str(<<>>), Str(<<"J", "a", "n", " ", "5">>) }

RenderThemes == { THEMES[i] : i \in 1..Len(THEMES) }

InitRender ==
    /\ locale \in Locales
    /\ \E tok \in RenderTokens, pr \in RenderPricePairs, w \in RenderWalletTags,
          ts \in RenderTimestamps, th \in RenderThemes :
            cardIn = [data |-> CardDataOf(tok, pr[1], pr[2], w, ts), theme |-> th]
    /\ drawn = <<>>
    /\ IdlePnL /\ IdlePrice /\ IdleValidate /\ IdleSanitize /\ IdleServer /\ IdleApp
    /\ pc = "call"

RenderCard ==
    /\ pc = "call"
    /\ cardIn # <<>>
    /\ drawn' = renderCard(cardIn.data, cardIn.theme)
    /\ pc' = "return"
    /\ UNCHANGED <<locale, appVars, cardIn, pnlVars, priceVars, validateVars, sanitizeVars, serverVars>>

NextRender == RenderCard

SpecRender == InitRender /\ [][NextRender]_vars

----------------------------------------------------------------------------
(* Properties of renderCard *)

Rendered == pc = "return" /\ cardIn # <<>>

\* the card data of the state with another ticker, entry price or current price
WithToken(tok) ==
    LET d == cardIn.data
    IN  CardDataOf(tok, d.entryPrice, d.currentPrice, d.walletTag, d.timestamp)

WithEntry(e) ==
    LET d == cardIn.data
    IN  CardDataOf(d.tokenSymbol, e, d.currentPrice, d.walletTag, d.timestamp)

WithCurrent(c) ==
    LET d == cardIn.data
    IN  CardDataOf(d.tokenSymbol, d.entryPrice, c, d.walletTag, d.timestamp)

OtherEntries ==
    { e \in RenderEntryPrices : e # cardIn.data.entryPrice
                                /\ <<e, cardIn.data.currentPrice>> \in RenderPricePairs }

OtherCurrents ==
    { c \in RenderCurrentPrices : c # cardIn.data.currentPrice
                                  /\ <<cardIn.data.entryPrice, c>> \in RenderPricePairs }

\* what renderCard draws of the prices: the two price texts, the gain text and its colour
SamePriceTexts(d1, d2) ==
    /\ formatTokenPrice(d1.entryPrice) = formatTokenPrice(d2.entryPrice)
    /\ formatTokenPrice(d1.currentPrice) = formatTokenPrice(d2.currentPrice)
    /\ d1.pnl.formattedGain = d2.pnl.formattedGain
    /\ d1.pnl.isProfit = d2.pnl.isProfit

\* C19 as stated: changing the theme, the ticker, the entry price or the current
\* price alone always changes the sequence of drawing operations.
C19_EveryChangeChangesDrawing ==
    Rendered =>
        /\ \A th \in RenderThemes \ {cardIn.theme} : renderCard(cardIn.data, th) # drawn
        /\ \A tok \in RenderTokens \ {cardIn.data.tokenSymbol} :
              renderCard(WithToken(tok), cardIn.theme) # drawn
        /\ \A e \in OtherEntries : renderCard(WithEntry(e), cardIn.theme) # drawn
        /\ \A c \in OtherCurrents : renderCard(WithCurrent(c), cardIn.theme) # drawn

\* C19 as the code has it: changing the theme or the ticker alone always
\* changes the sequence of drawing operations; changing one price alone changes
\* it exactly when the formatted price, the formatted gain or the profit/loss
\* colour changes.
C19_ChangeOfDrawnTextChangesDrawing ==
    Rendered =>
        /\ \A th \in RenderThemes \ {cardIn.theme} : renderCard(cardIn.data, th) # drawn
        /\ \A tok \in RenderTokens \ {cardIn.data.tokenSymbol} :
              renderCard(WithToken(tok), cardIn.theme) # drawn
        /\ \A e \in OtherEntries :
              (renderCard(WithEntry(e), cardIn.theme) = drawn)
                  <=> SamePriceTexts(WithEntry(e), cardIn.data)
        /\ \A c \in OtherCurrents :
              (renderCard(WithCurrent(c), cardIn.theme) = drawn)
                  <=> SamePriceTexts(WithCurrent(c), cardIn.data)

\* two entry prices a thousandth apart are drawn the same, a third one differently
C19_Witness ==
    /\ Rendered
    /\ cardIn.data.entryPrice = Dec(100001, -3)
    /\ cardIn.data.currentPrice = Dec(200, 0)
    /\ renderCard(WithEntry(Dec(100002, -3)), cardIn.theme) = drawn
    /\ renderCard(WithEntry(Dec(5, -1)), cardIn.theme) # drawn

\* the positions of the fillText calls in a drawing made at the point (x, y)
TextsAt(d, x, y) ==
    { i \in 1..Len(d) : d[i].op = "fillText" /\ d[i].args = <<x, y>> }

\* the centerpiece, the entry-price text and the current-price text of the card
GainTexts == TextsAt(drawn, 600, 270)

EntryPriceTexts == TextsAt(drawn, 340, 430)

CurrentPriceTexts == TextsAt(drawn, 860, 430)

\* C22: for every theme the centerpiece gain text and the current-price text
\* are drawn in the palette's profit colour when pnl.isProfit holds and in its
\* loss colour otherwise; the entry-price text is drawn in the neutral text
\* colour whatever isProfit is.
C22_ProfitLossColours ==
    Rendered =>
        LET colors == getColors(cardIn.theme)
            expected == IF cardIn.data.pnl.isProfit THEN colors.profit ELSE colors.loss
        IN  /\ GainTexts # {} /\ EntryPriceTexts # {} /\ CurrentPriceTexts # {}
            /\ \A i \in GainTexts :
                  /\ drawn[i].text = cardIn.data.pnl.formattedGain
                  /\ drawn[i].ctx.fillStyle = expected
            /\ \A i \in CurrentPriceTexts :
                  /\ drawn[i].text = formatTokenPrice(cardIn.data.currentPrice)
                  /\ drawn[i].ctx.fillStyle = expected
            /\ \A i \in EntryPriceTexts :
                  /\ drawn[i].text = formatTokenPrice(cardIn.data.entryPrice)
                  /\ drawn[i].ctx.fillStyle = colors.text

\* a loss drawn on the light card: gain and current price in the loss colour,
\* the entry price in the text colour
C22_Witness ==
    /\ Rendered
    /\ cardIn.theme = THEMES[2]
    /\ ~cardIn.data.pnl.isProfit
    /\ \E i \in GainTexts : drawn[i].ctx.fillStyle = "#dd3355"
    /\ \E i \in CurrentPriceTexts : drawn[i].ctx.fillStyle = "#dd3355"
    /\ \E i \in EntryPriceTexts : drawn[i].ctx.fillStyle = "#1a1a2e"

\* a profit drawn on the degen card, its centerpiece drawn twice in the profit colour
C22_WitnessProfit ==
    /\ Rendered
    /\ cardIn.theme = THEMES[3]
    /\ cardIn.data.pnl.isProfit
    /\ Cardinality(GainTexts) = 2
    /\ \A i \in GainTexts : drawn[i].ctx.fillStyle = "#0f0"

\* the decorations of a drawing: the one-pixel-high full-width bars, the
\* stroked paths and the texts drawn with a shadow
Scanlines(d) ==
    { i \in 1..Len(d) : d[i].op = "fillRect" /\ d[i].args[3] = CARD_WIDTH /\ d[i].args[4] = 1 }

CornerStrokes(d) == { i \in 1..Len(d) : d[i].op = "stroke" }

GlowTexts(d) == { i \in 1..Len(d) : d[i].op = "fillText" /\ d[i].ctx.shadowBlur # "0" }

\* the corner of the card an accent ending at drawing position i is drawn in:
\* the point its two lines meet at
AccentCorner(d, i) == d[i - 2].args

\* the texts of a drawing but the glow, each with its position, font and
\* alignment, and the rounded boxes with their geometry
Layout(d) ==
    LET IsLaidOut(c) ==
            \/ c.op = "fillText" /\ c.ctx.shadowBlur = "0"
            \/ c.op \in {"arcTo", "fill"}
        Placed(c) ==
            IF c.op = "fillText"
            THEN [ op |-> c.op, args |-> c.args, text |-> c.text, font |-> c.ctx.font,
                   textAlign |-> c.ctx.textAlign, textBaseline |-> c.ctx.textBaseline ]
            ELSE [ op |-> c.op, args |-> c.args, text |-> <<>>, font |-> "",
                   textAlign |-> "", textBaseline |-> "" ]
        kept == SelectSeq(d, IsLaidOut)
    IN  [ i \in 1..Len(kept) |-> Placed(kept[i]) ]

\* C23: renderCard draws the scanline overlay, the four corner accent strokes
\* and the shadowed draw of the centerpiece text if and only if the theme is
\* 'degen'; the positions, fonts and strings of the header, the centerpiece, the
\* price boxes and the footer are the same for the three themes.
C23_DegenEffectsOnlyInDegen ==
    Rendered =>
        /\ IF cardIn.theme = THEMES[3]
           THEN /\ Cardinality(Scanlines(drawn)) = 158
                /\ \A i \in Scanlines(drawn) : drawn[i].args[2] % 4 = 0
                /\ Cardinality(CornerStrokes(drawn)) = 4
                /\ { AccentCorner(drawn, i) : i \in CornerStrokes(drawn) }
                      = { <<0, 0>>, <<CARD_WIDTH, 0>>, <<0, CARD_HEIGHT>>,
                          <<CARD_WIDTH, CARD_HEIGHT>> }
                /\ Cardinality(GlowTexts(drawn)) = 1
                /\ \A i \in GlowTexts(drawn) :
                      /\ i \in GainTexts
                      /\ drawn[i].text = cardIn.data.pnl.formattedGain
           ELSE /\ Scanlines(drawn) = {}
                /\ CornerStrokes(drawn) = {}
                /\ GlowTexts(drawn) = {}
        /\ \A th \in RenderThemes : Layout(renderCard(cardIn.data, th)) = Layout(drawn)

\* a degen card with its overlay, and the same data laid out alike on the dark card
C23_Witness ==
    /\ Rendered
    /\ cardIn.theme = THEMES[3]
    /\ Cardinality(Scanlines(drawn)) = 158
    /\ Cardinality(CornerStrokes(drawn)) = 4
    /\ GlowTexts(drawn) # {}
    /\ Len(Layout(drawn)) > 8
    /\ Layout(renderCard(cardIn.data, THEMES[1])) = Layout(drawn)
    /\ renderCard(cardIn.data, THEMES[1]) # drawn

\* a light card: no overlay, no accent, no glow
C23_WitnessPlain ==
    /\ Rendered
    /\ cardIn.theme = THEMES[2]
    /\ Scanlines(drawn) = {} /\ CornerStrokes(drawn) = {} /\ GlowTexts(drawn) = {}
    /\ \E i \in 1..Len(drawn) : drawn[i].op = "strokeRect"

\* the calls that put pixels on the canvas
Paints(c) == c.op \in {"fillRect", "fillText", "fill", "stroke", "strokeRect"}

\* the second draw of the centerpiece
SecondGainTexts == { i \in GainTexts : \E j \in GainTexts : j < i }

Watermarks ==
    { i \in 1..Len(drawn) :
        drawn[i].op = "fillText"
        /\ drawn[i].text = <<"F", "L", "E", "X", " ", "C", "A", "R", "D">> }

\* C30: during renderCard globalAlpha is 1 and shadowBlur is 0 at every draw,
\* except at the degen scanlines (alpha 0.03), the degen corner accents (alpha
\* 0.5), the second degen draw of the centerpiece (shadowBlur 30) and the
\* 'FLEX CARD' watermark (alpha 0.6); so every draw that follows one of these
\* finds alpha 1 and blur 0 again, and so does the caller after the watermark.
C30_AlphaAndBlurFrame ==
    Rendered =>
        /\ \A i \in 1..Len(drawn) :
            Paints(drawn[i]) =>
                LET ctx == drawn[i].ctx
                IN  IF i \in Scanlines(drawn)
                    THEN ctx.globalAlpha = "0.03" /\ ctx.shadowBlur = "0"
                    ELSE IF i \in CornerStrokes(drawn)
                    THEN ctx.globalAlpha = "0.5" /\ ctx.shadowBlur = "0"
                    ELSE IF i \in SecondGainTexts
                    THEN ctx.globalAlpha = "1" /\ ctx.shadowBlur = "30"
                    ELSE IF i \in Watermarks
                    THEN ctx.globalAlpha = "0.6" /\ ctx.shadowBlur = "0"
                    ELSE ctx.globalAlpha = "1" /\ ctx.shadowBlur = "0"
        /\ contextAfterRender(cardIn.data, cardIn.theme).globalAlpha = "1"
        /\ contextAfterRender(cardIn.data, cardIn.theme).shadowBlur = "0"

\* a degen card: the header follows the accents, the first price box follows the
\* glow, and both are drawn with alpha 1 and no blur; the watermark comes last
C30_Witness ==
    /\ Rendered
    /\ cardIn.theme = THEMES[3]
    /\ \E i \in CornerStrokes(drawn) :
          /\ drawn[i + 1].op = "fillText"
          /\ drawn[i + 1].ctx.globalAlpha = "1"
    /\ \E i \in SecondGainTexts :
          /\ drawn[i].ctx.shadowBlur = "30"
          /\ \E j \in (i + 1)..Len(drawn) : drawn[j].op = "fill" /\ drawn[j].ctx.shadowBlur = "0"
    /\ Watermarks = {Len(drawn)}
    /\ drawn[Len(drawn)].ctx.globalAlpha = "0.6"

----------------------------------------------------------------------------
(* src/routes/cardRoutes.ts: extractBody and the POST /generate-card handler *)

\* A parsed JSON object: its six card fields (Undefined when absent) and what it
\* holds under the key 'body'
Obj(fields, body) == [t |-> "object", fields |-> fields, body |-> body]

\* body?.body && typeof body.body === 'object' ? body.body : body
Unwrapped(body) ==
    IF ~IsNullish(body) /\ ~Falsy(body.body) /\ TypeOf(body.body) = "object"
    THEN body.body
    ELSE body

\* reading d.ticker of an undefined d raises a TypeError
extractBodyThrows(body) == IsNullish(Unwrapped(body))

\* every level of nesting unwrapped
extractBodyDeep(body) ==
    LET d1 == Unwrapped(body)
        d2 == Unwrapped(d1)
        d3 == Unwrapped(d2)
    IN  d3.fields

extractBody(body) == Unwrapped(body).fields

\* new Date().toLocaleDateString('en-US', { month, day, year, hour, minute }) at
\* minute t of the clock: a text that changes with the minute
toLocaleDateString(t) == <<"N", "o", "v", " ", "3", ",", " ", "1", "2", ":">> \o Digits(t)

\* res.status(status).json(...)
Response(status, error, details, image, metadata) ==
    [ status |-> status, success |-> status = 200, error |-> error, details |-> details,
      image |-> image, metadata |-> metadata ]

\* the catch block: any exception raised inside the try; sent counts the
\* res.json calls made on the path
Caught(calls) ==
    [ response |-> Response(500, "Failed to generate card", <<>>, <<>>, <<>>), calls |-> calls,
      sent |-> 1 ]

\* cardRoutes.ts:70-98, given the extracted body b and the list validate returned:
\* the response and the stages called; backend is "throws" when the canvas
\* library raises during renderCard, time is the clock at the call
cardResponse(b, errs, backend, time) ==
    IF Len(errs) > 0
    THEN [ response |-> Response(400, "Validation failed", errs, <<>>, <<>>),
           calls |-> <<"validate">>, sent |-> 1 ]
    ELSE LET result == calculatePnL(b.entry_price.num, b.current_price.num)
         IN  IF IsError(result)
             THEN [ response |-> Response(400, result.message, <<>>, <<>>, <<>>),
                    calls |-> <<"validate", "calculatePnL">>, sent |-> 1 ]
             ELSE LET theme == IF Falsy(b.theme) THEN THEMES[1] ELSE b.theme.str
                      cardData ==
                        [ tokenSymbol |-> sanitizeTicker(b.ticker),
                          entryPrice |-> b.entry_price.num,
                          currentPrice |-> b.current_price.num,
                          pnl |-> result,
                          walletTag |-> IF Falsy(b.wallet_tag) THEN Undefined
                                        ELSE Str(sanitizeString(b.wallet_tag, IntVal(50))),
                          timestamp |-> IF Falsy(b.timestamp) THEN Str(toLocaleDateString(time))
                                        ELSE Str(sanitizeString(b.timestamp, IntVal(100))) ]
                      calls == <<"validate", "calculatePnL", "sanitize", "renderCard">>
                  IN  IF backend = "throws" THEN Caught(calls)
                      ELSE [ response |->
                               Response(200, "", <<>>, renderCard(cardData, theme),
                                        [ ticker |-> cardData.tokenSymbol,
                                          gain_percentage |-> result.percentageGain,
                                          formatted_gain |-> result.formattedGain,
                                          is_profit |-> result.isProfit,
                                          theme |-> theme ]),
                             calls |-> calls, sent |-> 1 ]

\* the strings sanitized before they are validated
generateCardSanitizeFirst(body, backend, time) ==
    IF extractBodyThrows(body) THEN Caught(<<>>)
    ELSE LET b == extractBody(body)
             c == [b EXCEPT !.ticker = IF TypeOf(b.ticker) = "string"
                                       THEN Str(sanitizeTicker(b.ticker)) ELSE b.ticker,
                            !.wallet_tag = IF TypeOf(b.wallet_tag) = "string"
                                           THEN Str(sanitizeString(b.wallet_tag, IntVal(50)))
                                           ELSE b.wallet_tag,
                            !.timestamp = IF TypeOf(b.timestamp) = "string"
                                          THEN Str(sanitizeString(b.timestamp, IntVal(100)))
                                          ELSE b.timestamp]
         IN  cardResponse(c, validate(c), backend, time)

\* a ticker that is empty once sanitized is a validation error
generateCardRejectsEmptySymbol(body, backend, time) ==
    IF extractBodyThrows(body) THEN Caught(<<>>)
    ELSE LET b == extractBody(body)
             e == validate(b)
         IN  cardResponse(b, IF tickerErrors(b) = <<>> /\ sanitizeTicker(b.ticker) = <<>>
                             THEN <<"ticker is required">> \o e ELSE e,
                          backend, time)

\* calculatePnL called before the validation errors are looked at
generateCardIgnoresErrors(body, backend, time) ==
    IF extractBodyThrows(body) THEN Caught(<<>>)
    ELSE LET b == extractBody(body)
         IN  IF Len(validate(b)) > 0 /\ TypeOf(b.entry_price) = "number" /\ IsFinite(b.entry_price)
                /\ TypeOf(b.current_price) = "number" /\ IsFinite(b.current_price)
             THEN [ response |-> Response(400, "Validation failed", validate(b), <<>>, <<>>),
                    calls |-> <<"validate", "calculatePnL">>, sent |-> 1 ]
             ELSE cardResponse(b, validate(b), backend, time)

\* a request refused once the process has counted an error
generateCardAfterErrors(body, backend, time) ==
    IF extractBodyThrows(body) \/ metrics.errors > 0 THEN Caught(<<>>)
    ELSE cardResponse(extractBody(body), validate(extractBody(body)), backend, time)

\* the footer always stamped with the current date
generateCardAlwaysStamped(body, backend, time) ==
    IF extractBodyThrows(body) THEN Caught(<<>>)
    ELSE LET b == [extractBody(body) EXCEPT !.timestamp = Undefined]
         IN  cardResponse(b, validate(extractBody(body)), backend, time)

\* the catch block answers although the try block already has
generateCardAnswersTwice(body, backend, time) ==
    IF extractBodyThrows(body) THEN Caught(<<>>)
    ELSE LET b == extractBody(body)
             done == cardResponse(b, validate(b), backend, time)
         IN  IF done.response.status = 400
             THEN [ response |-> Caught(<<>>).response, calls |-> done.calls, sent |-> 2 ]
             ELSE done

\* router.post('/generate-card'): the body of the try block and its catch
generateCard(body, backend, time) ==
    IF extractBodyThrows(body) THEN Caught(<<>>)
    ELSE LET b == extractBody(body)
         IN  cardResponse(b, validate(b), backend, time)

----------------------------------------------------------------------------
(* The server: utils/metrics.ts and the requests it processes *)

CardFields(ticker, entry_price, current_price, theme, wallet_tag, timestamp) ==
    [ ticker |-> ticker, entry_price |-> entry_price, current_price |-> current_price,
      theme |-> theme, wallet_tag |-> wallet_tag, timestamp |-> timestamp ]

NoFields == CardFields(Undefined, Undefined, Undefined, Undefined, Undefined, Undefined)

\* the field bags of the requests
GoodFields ==
    CardFields(Str(<<"b", "t", "c">>), IntVal(100), IntVal(200), Undefined, Undefined, Undefined)

StampedFields ==
    CardFields(Str(<<"B", "T", "C">>), IntVal(100), IntVal(50), Str(THEMES[2]),
               Str(<<"<", "m", "e", ">">>), Str(<<"J", "a", "n", " ", "5">>))

PunctuationTickerFields ==
    CardFields(Str(<<"-", "-">>), IntVal(100), IntVal(200), Undefined, Undefined, Undefined)

LongTickerFields ==
    CardFields(Str(Repeat("A", MaxTickerLen) \o <<"<">>), IntVal(100), IntVal(200),
               Undefined, Undefined, Undefined)

LongFooterFields ==
    CardFields(Str(<<"b", "t", "c">>), IntVal(100), IntVal(200), Undefined,
               Str(Repeat("w", MaxWalletTagLen) \o <<"\t">>),
               Str(Repeat("t", MaxTimestampLen) \o <<">">>))

BadPriceFields ==
    CardFields(Undefined, NumberVal(Dec(-1, 0)), IntVal(200), Undefined, Undefined, Undefined)

\* req.body as express.json leaves it: an object, or undefined when no body was parsed
RequestBodies ==
    { Undefined }
    \cup { Obj(f, Undefined) : f \in { GoodFields, StampedFields, PunctuationTickerFields,
                                       LongTickerFields, LongFooterFields, BadPriceFields,
                                       NoFields } }
    \cup { Obj(NoFields, Obj(GoodFields, Undefined)),
           Obj(BadPriceFields, Obj(StampedFields, Undefined)),
           Obj(GoodFields, Obj(NoFields, Undefined)),
           Obj(GoodFields, Null),
           Obj(StampedFields, Str(<<"x">>)),
           Obj(NoFields, Obj(NoFields, Obj(GoodFields, Undefined))) }

Reqs == 1..NumRequests

Has(list, x) == \E i \in 1..Len(list) : list[i] = x

InitServer ==
    /\ locale \in {"en-US"}
    /\ reqs = [ r \in Reqs |-> [ at |-> "new", body |-> Undefined, start |-> 0, backend |-> "",
                                 handledAt |-> 0, response |-> <<>>, calls |-> <<>>,
                                 sent |-> 0 ] ]
    /\ metrics = [requests |-> 0, errors |-> 0, latencySum |-> 0, latencyCount |-> 0]
    /\ now = 0
    /\ IdlePnL /\ IdlePrice /\ IdleValidate /\ IdleSanitize /\ IdleRender /\ IdleApp
    /\ pc = "call"

\* metricsMiddleware: a request arrives
Receive(r) ==
    /\ reqs[r].at = "new"
    /\ \E body \in RequestBodies :
          reqs' = [reqs EXCEPT ![r].at = "received", ![r].body = body, ![r].start = now]
    /\ metrics' = [metrics EXCEPT !.requests = @ + 1]
    /\ UNCHANGED <<locale, appVars, now, pnlVars, priceVars, validateVars, sanitizeVars, renderVars, pc>>

\* the POST /generate-card handler, run to its response
Handle(r) ==
    /\ reqs[r].at = "received"
    /\ \E backend \in {"draws", "throws"} :
          \E done \in {generateCard(reqs[r].body, backend, now)} :
              /\ backend = "throws" => Has(done.calls, "renderCard")
              /\ reqs' = [reqs EXCEPT ![r].at = "responded", ![r].backend = backend,
                                      ![r].handledAt = now, ![r].response = done.response,
                                      ![r].calls = done.calls, ![r].sent = done.sent]
    /\ UNCHANGED <<locale, appVars, metrics, now, pnlVars, priceVars, validateVars, sanitizeVars,
                   renderVars, pc>>

\* the 'finish' listener counting an error without counting the response
FinishWithoutCount(r) ==
    /\ reqs[r].at = "responded"
    /\ reqs' = [reqs EXCEPT ![r].at = "finished"]
    /\ metrics' = [metrics EXCEPT !.latencySum = @ + (now - reqs[r].start),
                                  !.errors = IF reqs[r].response.status >= 400 THEN @ + 1 ELSE @]
    /\ UNCHANGED <<locale, appVars, now, pnlVars, priceVars, validateVars, sanitizeVars, renderVars, pc>>

\* the 'finish' listener of metricsMiddleware
Finish(r) ==
    /\ reqs[r].at = "responded"
    /\ reqs' = [reqs EXCEPT ![r].at = "finished"]
    /\ metrics' = [metrics EXCEPT !.latencySum = @ + (now - reqs[r].start),
                                  !.latencyCount = @ + 1,
                                  !.errors = IF reqs[r].response.status >= 400 THEN @ + 1 ELSE @]
    /\ UNCHANGED <<locale, appVars, now, pnlVars, priceVars, validateVars, sanitizeVars, renderVars, pc>>

\* time passes
Tick ==
    /\ now < MaxClock
    /\ now' = now + 1
    /\ UNCHANGED <<locale, appVars, reqs, metrics, pnlVars, priceVars, validateVars, sanitizeVars,
                   renderVars, pc>>

RECURSIVE NatOf(_)
\* the number a digit string writes
NatOf(ds) ==
    IF ds = <<>> THEN 0
    ELSE NatOf(SubSeq(ds, 1, Len(ds) - 1)) * 10
         + (CHOOSE j \in 0..9 : DigitChars[j + 1] = ds[Len(ds)])

\* parseFloat of the text toFixed(2) returns for a non-negative number
parseFloat(t) ==
    LET point == CHOOSE i \in 1..Len(t) : t[i] = "."
        frac  == SubSeq(t, point + 1, Len(t))
    IN  Dec(NatOf(SubSeq(t, 1, point - 1) \o frac), -Len(frac))

\* getMetrics, without the fields derived from the uptime
getMetrics ==
    LET avgLatency == IF metrics.latencyCount > 0
                      THEN MathRoundScaled(Num(metrics.latencySum, metrics.latencyCount, 0), 0)
                      ELSE 0
        errorRate  == IF metrics.requests > 0
                      THEN ToFixed(Num(metrics.errors, metrics.requests, 2), 2)
                      ELSE <<"0", ".", "0", "0">>
    IN  [ total_requests |-> metrics.requests,
          total_errors |-> metrics.errors,
          error_rate_percent |-> parseFloat(errorRate),
          avg_latency_ms |-> avgLatency ]

NextServer ==
    \/ \E r \in Reqs : Receive(r)
    \/ \E r \in Reqs : Handle(r)
    \/ \E r \in Reqs : Finish(r)
    \/ Tick

SpecServer == InitServer /\ [][NextServer]_vars

----------------------------------------------------------------------------
(* Properties of the POST /generate-card handler *)

Handled(r) == reqs # <<>> /\ reqs[r].at \in {"responded", "finished"}

\* the handler got as far as validate
Extracted(r) == Handled(r) /\ reqs[r].body.t = "object"

\* the field bag the request's values are to be taken from: the object under
\* 'body' when there is one, else the body itself
FieldsOf(body) == IF body.body.t = "object" THEN body.body.fields ELSE body.fields

SymbolFreeTicker(v) ==
    /\ v.t = "string"
    /\ Len(v.str) <= 20
    /\ \E i \in 1..Len(v.str) : v.str[i] \notin WhiteSpace
    /\ \A i \in 1..Len(v.str) :
          v.str[i] \notin (Range(LowerLetters) \cup Range(UpperLetters) \cup Range(DigitChars)
                           \cup {"$", "sharp-s"})

C15_OneLevelUnwrapped ==
    \A r \in Reqs : Extracted(r) =>
        LET body == reqs[r].body
            b == FieldsOf(body)
        IN  /\ reqs[r].response = cardResponse(b, validate(b), reqs[r].backend,
                                               reqs[r].handledAt).response
            /\ (body.body.t = "object" /\ body.body.body.t = "object")
                => /\ reqs[r].response.status = 400
                   /\ reqs[r].response.details =
                        <<"ticker is required", "entry_price is required",
                          "current_price is required">>

\* the nested object is used although the top level holds other, invalid values
C15_Witness ==
    \E r \in Reqs :
        /\ Extracted(r)
        /\ reqs[r].body = Obj(BadPriceFields, Obj(StampedFields, Undefined))
        /\ reqs[r].response.status = 200
        /\ reqs[r].response.metadata.ticker = <<"B", "T", "C">>

\* a request wrapped two levels deep, answered
C15_WitnessTwoLevels ==
    \E r \in Reqs :
        /\ Extracted(r)
        /\ reqs[r].body.body.t = "object"
        /\ reqs[r].body.body.body.t = "object"
        /\ reqs[r].response.status = 400

\* C16: the stages run in the order validate, calculatePnL, renderCard, each at
\* most once; calculatePnL only after validate returned no error, renderCard
\* only after calculatePnL returned a result; a request with a validation error
\* is answered 400 with the error list in 'details' and nothing is rendered.
C16_StagesInOrder ==
    \A r \in Reqs : Handled(r) =>
        LET calls == reqs[r].calls
            resp == reqs[r].response
        IN  /\ calls \in { <<>>, <<"validate">>, <<"validate", "calculatePnL">>,
                           <<"validate", "calculatePnL", "sanitize", "renderCard">> }
            /\ Extracted(r) =>
                  LET b == FieldsOf(reqs[r].body)
                  IN  /\ calls # <<>>
                      /\ Has(calls, "calculatePnL") => validate(b) = <<>>
                      /\ Has(calls, "renderCard")
                            => ~IsError(calculatePnL(b.entry_price.num, b.current_price.num))
                      /\ validate(b) # <<>>
                            => /\ resp.status = 400
                               /\ resp.error = "Validation failed"
                               /\ resp.details = validate(b)
                               /\ resp.image = <<>>
                               /\ calls = <<"validate">>

\* one request stopped at validation, another gone through the three stages
C16_Witness ==
    \E r, q \in Reqs :
        /\ Handled(r) /\ Handled(q)
        /\ reqs[r].calls = <<"validate">>
        /\ reqs[r].response.status = 400
        /\ Has(reqs[q].calls, "renderCard")
        /\ reqs[q].response.status = 200

\* request r takes a step that leaves it answered with an error
FailingStep(r) ==
    /\ reqs'[r] # reqs[r]
    /\ reqs'[r].at \in {"responded", "finished"}
    /\ reqs'[r].response.status >= 400

\* every response given so far is the one its own request determines
OwnResponses ==
    \A q \in Reqs : Handled(q) =>
        reqs[q].response = generateCard(reqs[q].body, reqs[q].backend, reqs[q].handledAt).response

\* C17 as stated: a step of a failing request leaves every other request as it
\* was, every response given so far the one its own request determines, and
\* all process-wide state (the metrics counters, the locale) unchanged.
C17_FailingRequestChangesNothing ==
    /\ []OwnResponses
    /\ [][ \A r \in Reqs : FailingStep(r) =>
              /\ \A q \in Reqs \ {r} : reqs'[q] = reqs[q]
              /\ locale' = locale
              /\ metrics' = metrics ]_vars

\* C17 as the code has it: a step of a failing request leaves every other
\* request as it was and every response given so far the one its own request
\* determines; of the process-wide state it changes the metrics counters only,
\* counting itself once as finished and once as an error.
C17_FailingRequestChangesCountersOnly ==
    /\ []OwnResponses
    /\ [][ \A r \in Reqs : FailingStep(r) =>
              /\ \A q \in Reqs \ {r} : reqs'[q] = reqs[q]
              /\ locale' = locale
              /\ metrics'.requests = metrics.requests
              /\ IF reqs'[r].at = "finished"
                 THEN /\ metrics'.errors = metrics.errors + 1
                      /\ metrics'.latencyCount = metrics.latencyCount + 1
                 ELSE metrics' = metrics ]_vars

\* a failed request is counted and another request is answered 200 all the same
C17_Witness ==
    \E r, q \in Reqs :
        /\ Handled(r) /\ Handled(q)
        /\ reqs[r].at = "finished"
        /\ reqs[r].response.status >= 400
        /\ metrics.errors > 0
        /\ reqs[q].response.status = 200

Answered200(r) == Handled(r) /\ reqs[r].response.status = 200

\* C18 as stated: two requests with identical bodies, both answered 200, carry
\* identical image data, whenever each was handled.
C18_SameBodySameImage ==
    \A r, q \in Reqs :
        (Answered200(r) /\ Answered200(q) /\ reqs[r].body = reqs[q].body)
            => reqs[r].response.image = reqs[q].response.image

\* C18 as the code has it: two requests with identical bodies, both answered
\* 200, carry identical image data when the body has a non-empty timestamp or
\* both are handled in the same minute; without a timestamp and handled in
\* different minutes their images differ.
C18_SameBodySameImageIfStamped ==
    \A r, q \in Reqs :
        (Answered200(r) /\ Answered200(q) /\ reqs[r].body = reqs[q].body)
            => LET stamped == ~Falsy(FieldsOf(reqs[r].body).timestamp)
               IN  (reqs[r].response.image = reqs[q].response.image)
                      <=> (stamped \/ reqs[r].handledAt = reqs[q].handledAt)

\* the same stamped body handled in two different minutes, and drawn the same
C18_Witness ==
    \E r, q \in Reqs :
        /\ Answered200(r) /\ Answered200(q)
        /\ reqs[r].body = reqs[q].body
        /\ ~Falsy(FieldsOf(reqs[r].body).timestamp)
        /\ reqs[r].handledAt # reqs[q].handledAt
        /\ reqs[r].response.image = reqs[q].response.image

\* C20: the response to a request whose rendering raised in the drawing
\* backend differs from the response to a request that raised any other
\* exception.
C20_RenderFailureDistinct ==
    \A r, q \in Reqs :
        ( /\ Handled(r) /\ Handled(q)
          /\ reqs[r].backend = "throws"
          /\ Has(reqs[r].calls, "renderCard")
          /\ reqs[q].calls = <<>> )
            => reqs[r].response # reqs[q].response

\* validate returned no error for the request of the state
Accepted == Validated /\ errors = <<>>

\* the model computes the percentage of the request's prices
ComputablePrices ==
    Computable(request.entry_price.num.n, request.current_price.num.n,
               request.current_price.num.x - request.entry_price.num.x)

\* C24: for every request that passes validate, the conditions of
\* calculatePnL's two error returns are false and calculatePnL returns a
\* result, so the handler never takes its domain-error branch (400 with
\* pnl.message): it goes on to sanitize and render.
C24_NoDomainErrorAfterValidate ==
    Accepted =>
        /\ request.entry_price.t = "number" /\ request.current_price.t = "number"
        /\ ~(request.entry_price.num.n <= 0)
        /\ ~(request.current_price.num.n < 0)
        /\ ComputablePrices =>
              /\ ~IsError(calculatePnL(request.entry_price.num, request.current_price.num))
              /\ Has(cardResponse(request, errors, "throws", 0).calls, "renderCard")

\* the smallest entry price and a current price of 0 pass validate and give a result
C24_Witness ==
    /\ Accepted
    /\ request.entry_price = NumberVal(MIN_PRICE)
    /\ request.current_price = NumberVal(Dec(0, 0))
    /\ ComputablePrices
    /\ ~IsError(calculatePnL(request.entry_price.num, request.current_price.num))

\* C26: every POST /generate-card request is answered with exactly one
\* response, of status 200 (success, with image and metadata), 400 (validation
\* or domain error) or 500 (exception): when the handler has returned it has
\* called res.json once, never twice and never not at all, and before it runs
\* nothing has been sent.
C26_ExactlyOneResponse ==
    \A r \in Reqs :
        IF Handled(r)
        THEN /\ reqs[r].sent = 1
             /\ reqs[r].response.status \in {200, 400, 500}
             /\ reqs[r].response.success <=> reqs[r].response.status = 200
             /\ reqs[r].response.status = 200
                   <=> (reqs[r].response.image # <<>> /\ reqs[r].response.metadata # <<>>)
        ELSE reqs[r].sent = 0

\* the three statuses, each sent once: a rendered card, a refused body and an
\* exception
C26_Witness ==
    /\ \A r \in Reqs : Handled(r) /\ reqs[r].sent = 1
    /\ \E r, q \in Reqs : reqs[r].response.status = 400 /\ reqs[q].response.status = 500

C26_WitnessSuccess ==
    \E r, q \in Reqs :
        /\ Handled(r) /\ Handled(q)
        /\ reqs[r].response.status = 200 /\ reqs[r].sent = 1
        /\ reqs[q].response.status = 500 /\ reqs[q].backend = "throws"

\* errors <= latencyCount <= requests, and the reported error rate is a
\* percentage
CountersOrdered ==
    /\ 0 <= metrics.errors
    /\ metrics.errors <= metrics.latencyCount
    /\ metrics.latencyCount <= metrics.requests
    /\ getMetrics.error_rate_percent.n >= 0
    /\ LE10(getMetrics.error_rate_percent, 2)

\* C27: after any sequence and interleaving of request starts and response
\* finishes the counters satisfy errors <= latencyCount <= requests, the
\* error_rate_percent that getMetrics reports lies between 0 and 100, and no
\* step decreases requests, errors or latencyCount (nor latencySum, the clock
\* of the model never stepping back).
C27_CountersOrderedAndMonotone ==
    /\ []CountersOrdered
    /\ [][ /\ metrics'.requests >= metrics.requests
           /\ metrics'.errors >= metrics.errors
           /\ metrics'.latencyCount >= metrics.latencyCount
           /\ metrics'.latencySum >= metrics.latencySum ]_vars

\* two requests started, one of them finished with an error: half the
\* requests are errors
C27_Witness ==
    /\ metrics.requests = 2
    /\ metrics.latencyCount = 1
    /\ metrics.errors = 1
    /\ getMetrics.error_rate_percent = Dec(5000, -2)

\* every request failed and finished, after the clock has advanced
C27_WitnessAllErrors ==
    /\ metrics.requests = NumRequests
    /\ metrics.errors = NumRequests
    /\ metrics.latencySum > 0
    /\ getMetrics.error_rate_percent = Dec(10000, -2)
    /\ getMetrics.avg_latency_ms >= 0

----------------------------------------------------------------------------
(* src/index.ts: the middleware chain of the Express app, with             *)
(* notFoundHandler and errorHandler of src/utils/errorHandler.ts and the    *)
(* routes of src/routes/debugRoutes.ts                                      *)

\* A request is [method, path, body]: the path is its list of segments and
\* body is "none", "json" (a well-formed JSON object) or "malformed" (a JSON
\* content type with a body that does not parse).  A response is its status,
\* its error text and the handler that sent it.

Answer(status, error, by) == [status |-> status, error |-> error, by |-> by]

notFoundHandler(req) == Answer(404, "Endpoint not found", "notFoundHandler")

\* err is [syntax, body, message]: instanceof SyntaxError, 'body' in err, and
\* whether its message names the canvas or a font
errorHandler(err) ==
    IF err.syntax /\ err.body THEN Answer(400, "Invalid JSON in request body", "errorHandler")
    ELSE IF err.message = "canvas" THEN Answer(500, "Image rendering failed", "errorHandler")
    ELSE Answer(500, "An unexpected error occurred", "errorHandler")

\* the error express.json passes to next() for a body that does not parse
JsonParseError == [syntax |-> TRUE, body |-> TRUE, message |-> "Unexpected token"]

\* the GET routes of debugRoutes.ts
DebugRoutes == {"canvas-test", "pnl-test", "render-dark", "render-light", "render-degen"}

\* the router of debugRoutes.ts on the rest of the path: whether a route
\* matches, and its response; every route that draws catches the canvas's
\* exception itself
debugRoutes(method, rest, backend) ==
    IF method = "GET" /\ Len(rest) = 1 /\ rest[1] \in DebugRoutes
    THEN [ matched |-> TRUE,
           response |-> IF backend = "throws" /\ rest[1] # "pnl-test"
                        THEN Answer(500, "canvas", "debugRoutes")
                        ELSE Answer(200, "", "debugRoutes") ]
    ELSE [ matched |-> FALSE, response |-> <<>> ]

\* the router of cardRoutes.ts on the rest of the path: GET /generate-card
\* describes the endpoint; POST /generate-card validates the body, and the
\* bodies sent here carry no field of a card
cardRoutes(method, rest, body) ==
    IF Len(rest) = 1 /\ rest[1] = "generate-card" /\ method = "GET"
    THEN [ matched |-> TRUE, response |-> Answer(200, "", "cardRoutes") ]
    ELSE IF Len(rest) = 1 /\ rest[1] = "generate-card" /\ method = "POST"
    THEN [ matched |-> TRUE,
           response |-> IF validate(NoFields) # <<>>
                        THEN Answer(400, "Validation failed", "cardRoutes")
                        ELSE Answer(200, "", "cardRoutes") ]
    ELSE [ matched |-> FALSE, response |-> <<>> ]

\* the debug router mounted in every environment
appDebugAlways(nodeEnv, req, backend) ==
    IF req.body = "malformed" THEN errorHandler(JsonParseError)
    ELSE IF Len(req.path) >= 2 /\ SubSeq(req.path, 1, 2) = <<"api", "v1">>
            /\ cardRoutes(req.method, SubSeq(req.path, 3, Len(req.path)), req.body).matched
    THEN cardRoutes(req.method, SubSeq(req.path, 3, Len(req.path)), req.body).response
    ELSE IF Len(req.path) >= 1 /\ req.path[1] = "debug"
            /\ debugRoutes(req.method, Tail(req.path), backend).matched
    THEN debugRoutes(req.method, Tail(req.path), backend).response
    ELSE notFoundHandler(req)

\* index.ts: express.json, the card routes under /api/v1, the debug routes
\* under /debug unless NODE_ENV is 'production', notFoundHandler, errorHandler
app(nodeEnv, req, backend) ==
    IF req.body = "malformed" THEN errorHandler(JsonParseError)
    ELSE IF Len(req.path) >= 2 /\ SubSeq(req.path, 1, 2) = <<"api", "v1">>
            /\ cardRoutes(req.method, SubSeq(req.path, 3, Len(req.path)), req.body).matched
    THEN cardRoutes(req.method, SubSeq(req.path, 3, Len(req.path)), req.body).response
    ELSE IF ~(nodeEnv.set /\ nodeEnv.value = "production")
            /\ Len(req.path) >= 1 /\ req.path[1] = "debug"
            /\ debugRoutes(req.method, Tail(req.path), backend).matched
    THEN debugRoutes(req.method, Tail(req.path), backend).response
    ELSE notFoundHandler(req)

\* NODE_ENV unset, or set to one of these values
NodeEnvs ==
    { [set |-> FALSE, value |-> ""] }
    \cup { [set |-> TRUE, value |-> v] : v \in {"production", "development", "test", "PRODUCTION"} }

Paths ==
    { <<"nope">>, <<"debug">>, <<"debug", "nope">>, <<"debug", "canvas-test", "more">>,
      <<"api", "v1", "generate-card">>, <<"api", "v1", "debug">> }
    \cup { <<"debug", r>> : r \in DebugRoutes }

HttpRequests == [ method : {"GET", "POST"}, path : Paths, body : {"none", "json", "malformed"} ]

InitApp ==
    /\ locale \in {"en-US"}
    /\ env \in NodeEnvs
    /\ http \in [ request : HttpRequests, response : {<<>>} ]
    /\ IdlePnL /\ IdlePrice /\ IdleValidate /\ IdleSanitize /\ IdleRender /\ IdleServer
    /\ pc = "call"

\* the app answers the request; the canvas library draws or throws
Serve ==
    /\ pc = "call"
    /\ http # <<>>
    /\ \E backend \in {"draws", "throws"} :
          \E answer \in {app(env, http.request, backend)} :
              http' = [http EXCEPT !.response = answer]
    /\ pc' = "return"
    /\ UNCHANGED <<locale, env, pnlVars, priceVars, validateVars, sanitizeVars, renderVars,
                   serverVars>>

NextApp == Serve

SpecApp == InitApp /\ [][NextApp]_vars

----------------------------------------------------------------------------
(* Properties of the app *)

Served == pc = "return" /\ http # <<>>

UnderDebug == http.request.path[1] = "debug"

IsDebugRoute ==
    /\ http.request.method = "GET"
    /\ Len(http.request.path) = 2
    /\ http.request.path[2] \in DebugRoutes

InProduction == env.set /\ env.value = "production"

C21_WitnessServed ==
    /\ Served
    /\ ~env.set
    /\ http.request.path = <<"debug", "render-degen">>
    /\ http.request.method = "GET"
    /\ http.response = Answer(200, "", "debugRoutes")

\* a body that does not parse, sent to a debug route in production
C21_WitnessMalformed ==
    /\ Served
    /\ InProduction
    /\ IsDebugRoute
    /\ http.response.status = 400

====
